---- MODULE Spec2Model ----
(***************************************************************************)
(* Model of the background service worker of the extension                 *)
(* (src/background.js): the per-tab job queue (enqueueTabJob), the global  *)
(* capture queue (enqueueCaptureJob), the attempt loop of runJobForTab,    *)
(* and the message / alarm handlers that start and stop the recurrence.    *)
(*                                                                         *)
(* One action is one turn of the event loop: a handler or the continuation *)
(* of an await, together with every promise reaction (microtask) it        *)
(* triggers.  Outcomes of browser API calls and of HTTP requests are       *)
(* chosen by the environment.  chrome.alarms.create / clear are modelled   *)
(* by their effect on the set of registered alarms at the time of the call.*)
(*                                                                         *)
(* Six specifications share the module.  Spec: the queues, the attempt    *)
(* loop and the handlers, several jobs at once.  WaitSpec: one call of     *)
(* waitForTabComplete with a clock.  RunSpec: one call of runJobForTab     *)
(* followed statement by statement, with the tabs of its window, the       *)
(* capture fallback and the retries of sendToTelegram.  RegionSpec: the    *)
(* capture regions in memory and in chrome.storage, the two handlers that  *)
(* write them and the part of captureTab that reads them and crops.        *)
(* RunLiveSpec: RunSpec with the fairness of the calls that return.        *)
(* LoadWaitSpec: the loading-indicator wait of the injected page script.   *)
(***************************************************************************)
EXTENDS Integers, Sequences, FiniteSets, TLC

\* ---- Bound of the model: enqueueTabJob calls in one run ----
MaxJobs == 2

\* ---- Program constants ----
DEFAULT_RETRY == 2

\* ---- Inputs ----
\* tab ids the popup starts and stops, and interval minutes it sends
Tabs == {7, 42}
Intervals == {1, 10}

\* parseInt's "not a number" result
NaN == 0 - 1

VARIABLES
  tabQueues,     \* Map tabId -> id of the job whose promise is the queue tail
  captureQueue,  \* the global capture promise chain
  jobs,          \* the unsettled jobs: job id -> state of its runJobForTab call
  enqueued,      \* number of enqueueTabJob calls so far (the last job id)
  done,          \* what the settled jobs reported
  alarms,        \* registered chrome alarms
  lastEvent,     \* the event last dispatched to a listener, with its response
  waiter,        \* one call of waitForTabComplete: its closure, timers and tab
  run,           \* one call of runJobForTab followed statement by statement
  regions,       \* CAPTURE_REGIONS, the stored tabSettings and their users
  loadWait       \* step 2 of applyDateRangeFunction: the wait for the indicator

vars ==
  <<tabQueues, captureQueue, jobs, enqueued, done, alarms, lastEvent, waiter,
    run, regions, loadWait>>

\* ---- Strings as sequences of characters ----
DigitChars == <<"0", "1", "2", "3", "4", "5", "6", "7", "8", "9">>

RECURSIVE ToStr(_)
\* template literal `${tabId}` for a non-negative integer
ToStr(n) ==
  IF n < 10 THEN <<DigitChars[n + 1]>>
  ELSE ToStr(n \div 10) \o <<DigitChars[(n % 10) + 1]>>

AlarmPrefix == <<"a", "u", "t", "o", "S", "e", "n", "d", "_">>

\* `autoSend_${tabId}`
AlarmName(tabId) == AlarmPrefix \o ToStr(tabId)

\* String.prototype.startsWith
StartsWith(s, p) == Len(s) >= Len(p) /\ SubSeq(s, 1, Len(p)) = p

RECURSIVE SplitFrom(_, _, _, _)
\* the parts of s from position i on; cur is the part read so far
SplitFrom(s, sep, i, cur) ==
  IF i > Len(s) THEN <<cur>>
  ELSE IF s[i] = sep THEN <<cur>> \o SplitFrom(s, sep, i + 1, <<>>)
       ELSE SplitFrom(s, sep, i + 1, Append(cur, s[i]))

\* String.prototype.split with a one-character separator
Split(s, sep) == SplitFrom(s, sep, 1, <<>>)

DigitSet == {DigitChars[i] : i \in 1..10}
DigitVals == [c \in DigitSet |-> CHOOSE d \in 0..9 : DigitChars[d + 1] = c]
DigitVal(c) == DigitVals[c]
IsDigit(c) == c \in DigitSet

RECURSIVE ParseDigits(_, _)
ParseDigits(s, acc) ==
  IF s = <<>> \/ ~IsDigit(Head(s)) THEN acc
  ELSE ParseDigits(Tail(s), acc * 10 + DigitVal(Head(s)))

\* parseInt on an unsigned decimal string: the leading digits, NaN if none
parseInt(s) ==
  IF s = <<>> \/ ~IsDigit(Head(s)) THEN NaN ELSE ParseDigits(s, 0)

\* the index of split's result off by one: parseInt(alarm.name.split('_')[0])
ParseAlarmTabId_FirstPart(name) == parseInt(Split(name, "_")[1])

\* parseInt(alarm.name.split('_')[1])
ParseAlarmTabId(name) ==
  LET parts == Split(name, "_")
  IN IF Len(parts) >= 2 THEN parseInt(parts[2]) ELSE NaN

\* ---- chrome.alarms ----
\* chrome.alarms.create(name, {delayInMinutes, periodInMinutes}): an alarm of
\* the same name is replaced
AlarmsCreate(as, name, delay, period) ==
  {a \in as : a.name # name}
    \cup {[name |-> name, delayInMinutes |-> delay, periodInMinutes |-> period]}

\* chrome.alarms.clear(name)
AlarmsClear(as, name) == {a \in as : a.name # name}

\* the tail of the tab's chain is never looked up
QueueGet_AlwaysResolved(tq, tabId) == 0

\* ---- Promise chains ----
\* Map.get(key) || Promise.resolve(): 0 stands for the resolved promise
QueueGet(tq, tabId) == IF tabId \in DOMAIN tq THEN tq[tabId] ELSE 0

QueueSet(tq, tabId, j) ==
  [k \in (DOMAIN tq) \cup {tabId} |-> IF k = tabId THEN j ELSE tq[k]]

QueueDelete(tq, tabId) == [k \in (DOMAIN tq) \ {tabId} |-> tq[k]]

\* outcome of runJobForTab for each way it can end: it rejects only when the
\* un-guarded storage read at its top rejects
JobFnOutcome(result) == IF result = "threw" THEN "rejected" ELSE "resolved"

\* no .catch on the chain: the rejection stays in the queue promise
CatchLog_Rethrow(thenState) == thenState

\* .catch(err => console.error(...)) of enqueueTabJob: a rejection of the
\* .then promise is logged and the queue promise fulfils
CatchLog(thenState) == "fulfilled"

NewJob(tabId, prev) ==
  [tab |-> tabId, prev |-> prev, pc |-> "queued", attempt |-> 0, attempts |-> 0]

\* what a settled job leaves behind: how runJobForTab ended, the number of
\* attempts it began and the state of the promise enqueueTabJob returned
DoneRecord(job, result, st) ==
  [tab |-> job.tab, result |-> result, attempts |-> job.attempts,
   promise |-> st]

\* the call jobFn() = runJobForTab(tabId) up to its first await (line 340)
CallJobFn(js, j) == [js EXCEPT ![j].pc = "config"]

Successors(js, j) == {k \in DOMAIN js : js[k].prev = j}

Remove(js, j) == [k \in (DOMAIN js) \ {j} |-> js[k]]

\* the cleanup deletes the entry of the tab whoever holds it
FinallyCleanup_Always(tq, tabId, j) == QueueDelete(tq, tabId)

\* next.finally(() => { if (tabQueues.get(tabId) === next)
\* tabQueues.delete(tabId); }): only the tail removes the entry
FinallyCleanup(tq, tabId, j) ==
  IF QueueGet(tq, tabId) = j THEN QueueDelete(tq, tabId) ELSE tq

RECURSIVE Settle(_, _, _, _)
\* Job j's .then promise settles with thenState; the queue promise `next`
\* settles through CatchLog; the finally callback removes the map entry when
\* j is still the tail; the reaction of the job chained on `next` runs.
Settle(w, j, result, thenState) ==
  LET st == CatchLog(thenState)
      job == w.jobs[j]
      succ == Successors(w.jobs, j)
      tq1 == FinallyCleanup(w.tabQueues, job.tab, j)
      w1 == [w EXCEPT !.jobs = Remove(w.jobs, j),
                      !.done = @ \cup {DoneRecord(job, result, st)},
                      !.tabQueues = tq1]
  IN IF succ = {} THEN w1
     ELSE LET k == CHOOSE x \in succ : TRUE
          IN IF st = "fulfilled"
             THEN [w1 EXCEPT !.jobs = CallJobFn(w1.jobs, k)]
             ELSE Settle(w1, k, "skipped", "rejected")

\* runJobForTab returned or threw
Finish(w, j, result) ==
  Settle(w, j, result,
         IF JobFnOutcome(result) = "rejected" THEN "rejected" ELSE "fulfilled")

\* jobFn is called at once instead of being chained behind the tail
enqueueTabJob_NoWait(w, tabId) ==
  LET j == w.enqueued + 1
      js1 == [k \in (DOMAIN w.jobs) \cup {j} |->
                IF k = j THEN NewJob(tabId, 0) ELSE w.jobs[k]]
  IN [w EXCEPT !.jobs = CallJobFn(js1, j), !.enqueued = j,
               !.tabQueues = QueueSet(w.tabQueues, tabId, j)]

\* enqueueTabJob(tabId, () => runJobForTab(tabId)): an entry of the map is
\* always a pending promise (a settled tail has removed itself), so the job
\* waits behind it; without an entry it is called at once
enqueueTabJob(w, tabId) ==
  LET prev == QueueGet(w.tabQueues, tabId)
      j == w.enqueued + 1
      js1 == [k \in (DOMAIN w.jobs) \cup {j} |->
                IF k = j THEN NewJob(tabId, prev) ELSE w.jobs[k]]
      w1 == [w EXCEPT !.jobs = js1, !.enqueued = j,
                      !.tabQueues = QueueSet(w.tabQueues, tabId, j)]
  IN IF prev \in DOMAIN w.jobs THEN w1
     ELSE [w1 EXCEPT !.jobs = CallJobFn(js1, j)]

\* the last attempt is taken to be attempt DEFAULT_RETRY - 1
FailAttempt_OffByOne(w, j) ==
  IF w.jobs[j].attempt + 1 = DEFAULT_RETRY
  THEN Finish(w, j, "failed")
  ELSE [w EXCEPT !.jobs[j].pc = "backoff"]

\* catch block of the attempt loop (lines 518-540) followed by the loop
\* test: after the last attempt the original tab is re-activated (a failure
\* of that call is ignored) and runJobForTab returns; otherwise the job
\* sleeps before the next attempt
FailAttempt(w, j) ==
  IF w.jobs[j].attempt = DEFAULT_RETRY
  THEN Finish(w, j, "failed")
  ELSE [w EXCEPT !.jobs[j].pc = "backoff"]

RECURSIVE FailAll(_, _)
\* every promise chained behind a rejected capture promise rejects without
\* its captureFn being called; the awaiting attempts enter their catch block
FailAll(w, waiting) ==
  IF waiting = <<>> THEN w
  ELSE FailAll(FailAttempt(w, Head(waiting)), Tail(waiting))

\* captureFn is called without waiting for the previous capture promise
enqueueCaptureJob_NoLock(w, j) ==
  [w EXCEPT !.captureQueue.chain = Append(@, j), !.jobs[j].pc = "capture"]

\* enqueueCaptureJob(tabId, captureFn) called by job j: captureFn starts at
\* once behind a fulfilled promise, waits behind a pending one, and is never
\* called behind a rejected one
enqueueCaptureJob(w, j) ==
  IF w.captureQueue.chain # <<>>
  THEN [w EXCEPT !.captureQueue.chain = Append(@, j), !.jobs[j].pc = "capWait"]
  ELSE IF w.captureQueue.settled = "fulfilled"
       THEN [w EXCEPT !.captureQueue.chain = <<j>>, !.jobs[j].pc = "capture"]
       ELSE FailAttempt(w, j)

World ==
  [jobs |-> jobs, enqueued |-> enqueued, done |-> done,
   tabQueues |-> tabQueues, captureQueue |-> captureQueue]

queueVars == <<tabQueues, captureQueue, jobs, enqueued, done>>

Commit(w) ==
  /\ jobs' = w.jobs
  /\ enqueued' = w.enqueued
  /\ done' = w.done
  /\ tabQueues' = w.tabQueues
  /\ captureQueue' = w.captureQueue

Event(action, tabId, interval, name, status) ==
  [action |-> action, tabId |-> tabId, interval |-> interval, name |-> name,
   status |-> status]

\* no call of waitForTabComplete is being followed
NoWaiter == [promise |-> "none"]

\* no call of runJobForTab is being followed statement by statement
NoRun == [pc |-> "none"]

\* no capture region is followed
NoRegions == [pc |-> "none"]

\* the injected page script is not followed
NoLoadWait == [pc |-> "none"]

\* the module-level state right after the script has been evaluated
QueuesIdle ==
  /\ tabQueues = <<>>
  /\ captureQueue = [settled |-> "fulfilled", chain |-> <<>>]
  /\ jobs = <<>>
  /\ enqueued = 0
  /\ done = {}
  /\ alarms = {}
  /\ lastEvent = Event("none", 0, 0, <<>>, "none")

\* ---- Initial state: the service worker has just been loaded ----
Init ==
  /\ QueuesIdle
  /\ waiter = NoWaiter
  /\ run = NoRun
  /\ regions = NoRegions
  /\ loadWait = NoLoadWait

\* the alarm is created without delayInMinutes = interval (it fires after
\* one minute)
StartAutoSend_NoDelay(tabId, interval) ==
  /\ enqueued < MaxJobs
  /\ Commit(enqueueTabJob(World, tabId))
  /\ alarms' = AlarmsCreate(alarms, AlarmName(tabId), 1, interval)
  /\ lastEvent' = Event("startAutoSend", tabId, interval, <<>>, "started")

\* ---- chrome.runtime.onMessage ----
StartAutoSend(tabId, interval) ==
  /\ enqueued < MaxJobs
  /\ Commit(enqueueTabJob(World, tabId))
  /\ alarms' = AlarmsCreate(alarms, AlarmName(tabId), interval, interval)
  /\ lastEvent' = Event("startAutoSend", tabId, interval, <<>>, "started")

\* the alarm is cleared under the bare tab id instead of autoSend_<tabId>
StopAutoSend_WrongName(tabId) ==
  /\ alarms' = AlarmsClear(alarms, ToStr(tabId))
  /\ lastEvent' = Event("stopAutoSend", tabId, 0, <<>>, "stopped")
  /\ UNCHANGED queueVars

\* stopping also forgets the queue of the tab
StopAutoSend_DropQueue(tabId) ==
  /\ alarms' = AlarmsClear(alarms, AlarmName(tabId))
  /\ lastEvent' = Event("stopAutoSend", tabId, 0, <<>>, "stopped")
  /\ tabQueues' = QueueDelete(tabQueues, tabId)
  /\ UNCHANGED <<captureQueue, jobs, enqueued, done>>

\* chrome.alarms.clearAll() instead of clear(name)
StopAutoSend_ClearAll(tabId) ==
  /\ alarms' = {}
  /\ lastEvent' = Event("stopAutoSend", tabId, 0, <<>>, "stopped")
  /\ UNCHANGED queueVars

StopAutoSend(tabId) ==
  /\ alarms' = AlarmsClear(alarms, AlarmName(tabId))
  /\ lastEvent' = Event("stopAutoSend", tabId, 0, <<>>, "stopped")
  /\ UNCHANGED queueVars

\* ---- chrome.alarms.onAlarm ----
OnAlarm(alarm) ==
  /\ alarm \in alarms
  /\ enqueued < MaxJobs
  /\ IF ~StartsWith(alarm.name, AlarmPrefix)
     THEN UNCHANGED queueVars
     ELSE Commit(enqueueTabJob(World, ParseAlarmTabId(alarm.name)))
  /\ lastEvent' = Event("onAlarm", 0, 0, alarm.name, "none")
  /\ UNCHANGED alarms

\* ---- runJobForTab, one action per stage ----
\* lines 340-366: the settings arrive (or the read rejects), the active tab
\* of the window is looked up (a failed lookup is ignored) and the first
\* attempt begins
LoadConfig(j, outcome) ==
  /\ jobs[j].pc = "config"
  /\ CASE outcome = "rejected" -> Commit(Finish(World, j, "threw"))
       [] outcome = "nocreds" -> Commit(Finish(World, j, "nocreds"))
       [] OTHER ->
            /\ jobs' = [jobs EXCEPT ![j].attempt = 0,
                                    ![j].attempts = 1,
                                    ![j].pc = "prepare"]
            /\ UNCHANGED <<tabQueues, captureQueue, enqueued, done>>
  /\ UNCHANGED <<alarms, lastEvent>>

\* lines 371-468: reload, readiness wait, page actions, then the capture is
\* enqueued; a rejected reload throws into the catch block
Prepare(j, ok) ==
  /\ jobs[j].pc = "prepare"
  /\ IF ok THEN Commit(enqueueCaptureJob(World, j))
           ELSE Commit(FailAttempt(World, j))
  /\ UNCHANGED <<alarms, lastEvent>>

\* the capture promise of the head of the chain settles and the reactions
\* of the promises chained on it run
CaptureSettle(w, ok) ==
  LET j == Head(w.captureQueue.chain)
      rest == Tail(w.captureQueue.chain)
  IN IF ok
     THEN LET w1 == [w EXCEPT !.captureQueue = [settled |-> "fulfilled", chain |-> rest],
                              !.jobs[j].pc = "deliver"]
          IN IF rest = <<>> THEN w1
             ELSE [w1 EXCEPT !.jobs[Head(rest)].pc = "capture"]
     ELSE FailAll([w EXCEPT !.captureQueue = [settled |-> "rejected", chain |-> <<>>]],
                  <<j>> \o rest)

\* lines 468-499: the capture closure (focus, captureTab, restore) returns
\* the screenshot or throws
CaptureFinish(j, ok) ==
  /\ jobs[j].pc = "capture"
  /\ Commit(CaptureSettle(World, ok))
  /\ UNCHANGED <<alarms, lastEvent>>

\* lines 501-516: sendToTelegram returns or throws
Deliver(j, ok) ==
  /\ jobs[j].pc = "deliver"
  /\ IF ok THEN Commit(Finish(World, j, "success"))
           ELSE Commit(FailAttempt(World, j))
  /\ UNCHANGED <<alarms, lastEvent>>

\* lines 536-539 and the loop header (line 364): the back-off sleep ends
Backoff(j) ==
  /\ jobs[j].pc = "backoff"
  /\ IF jobs[j].attempt + 1 <= DEFAULT_RETRY
     THEN /\ jobs' = [jobs EXCEPT ![j].attempt = @ + 1, ![j].attempts = @ + 1,
                                  ![j].pc = "prepare"]
          /\ UNCHANGED <<tabQueues, captureQueue, enqueued, done>>
     ELSE Commit(Finish(World, j, "failed"))
  /\ UNCHANGED <<alarms, lastEvent>>

JobIds == DOMAIN jobs

Next ==
  \/ \E t \in Tabs, i \in Intervals :
       StartAutoSend(t, i) /\ UNCHANGED <<waiter, run, regions, loadWait>>
  \/ \E t \in Tabs : StopAutoSend(t) /\ UNCHANGED <<waiter, run, regions, loadWait>>
  \/ \E a \in alarms : OnAlarm(a) /\ UNCHANGED <<waiter, run, regions, loadWait>>
  \/ \E j \in JobIds, o \in {"ok", "nocreds", "rejected"} :
       LoadConfig(j, o) /\ UNCHANGED <<waiter, run, regions, loadWait>>
  \/ \E j \in JobIds, ok \in BOOLEAN : Prepare(j, ok) /\ UNCHANGED <<waiter, run, regions, loadWait>>
  \/ \E j \in JobIds, ok \in BOOLEAN :
       CaptureFinish(j, ok) /\ UNCHANGED <<waiter, run, regions, loadWait>>
  \/ \E j \in JobIds, ok \in BOOLEAN : Deliver(j, ok) /\ UNCHANGED <<waiter, run, regions, loadWait>>
  \/ \E j \in JobIds : Backoff(j) /\ UNCHANGED <<waiter, run, regions, loadWait>>

Spec == Init /\ [][Next]_vars

\* ======================= waitForTabComplete =======================
\* One call waitForTabComplete(tabId, timeout) with a clock in milliseconds
\* since the call.  A callback of chrome.tabs.get runs at the instant of the
\* request (no time passes before it, other events may); a timer runs at
\* its deadline.

\* setTimeout(() => resolve(true), 600) after 'complete' (lines 276, 296)
SETTLE_DELAY == 600

\* setTimeout(() => resolve(true), 800) after the timeout (line 261)
GRACE_DELAY == 800

\* const waitTimeout = 6000 + (attempt * 3000)
WaitTimeout(attempt) == 6000 + (attempt * 3000)

\* the timeouts runJobForTab passes in its attempts 0 .. DEFAULT_RETRY
WaitTimeouts == {WaitTimeout(a) : a \in 0..DEFAULT_RETRY}

\* tab.status of an open tab, and "gone" for a tab chrome.tabs.get cannot find
TabStatuses == {"unloaded", "loading", "complete"}

\* the closure right after the executor of the promise has run: timer armed,
\* listener added, chrome.tabs.get requested
NewWaiter(tabId, timeout, status) ==
  [tabId |-> tabId, timeout |-> timeout, now |-> 0, status |-> status,
   resolved |-> FALSE, timer |-> TRUE, listener |-> TRUE,
   gets |-> {"initial"}, delayed |-> {},
   promise |-> "pending", settledAt |-> 0 - 1, rejectedBy |-> "none",
   completeAt |-> 0 - 1, atTimeout |-> "none", decidedBy |-> {}]

\* cleanup(timer, listener)
cleanup(w) ==
  IF ~w.resolved
  THEN [w EXCEPT !.resolved = TRUE, !.timer = FALSE, !.listener = FALSE]
  ELSE w

\* resolve(true): a settled promise stays as it is
WaitResolve(w) ==
  IF w.promise = "pending"
  THEN [w EXCEPT !.promise = "fulfilled", !.settledAt = w.now]
  ELSE w

\* the path `by` (listener, initial check or timeout) decides the outcome
Decides(w, by) == [w EXCEPT !.decidedBy = @ \cup {by}]

\* reject(new Error(...)) by the callback `by`
WaitReject(w, by) ==
  IF w.promise = "pending"
  THEN [Decides(w, by) EXCEPT !.promise = "rejected", !.settledAt = w.now,
                              !.rejectedBy = by]
  ELSE Decides(w, by)

\* setTimeout(() => resolve(true), delay) by the callback `by`
ResolveAfter(w, delay, by) ==
  [Decides(w, by) EXCEPT !.delayed = @ \cup {w.now + delay}]

\* the tab has reported 'complete' to the waiter (first time is kept)
SawComplete(w) ==
  IF w.completeAt = 0 - 1 THEN [w EXCEPT !.completeAt = w.now] ELSE w

queueAndRunVars ==
  <<tabQueues, captureQueue, jobs, enqueued, done, alarms, lastEvent, run,
    regions, loadWait>>

WaitInit ==
  /\ QueuesIdle
  /\ run = NoRun
  /\ regions = NoRegions
  /\ loadWait = NoLoadWait
  /\ waiter \in {NewWaiter(t, to, st) :
                   t \in Tabs, to \in WaitTimeouts, st \in TabStatuses \cup {"gone"}}

\* lines 286-300: callback of the initial chrome.tabs.get
InitialGetCallback ==
  /\ "initial" \in waiter.gets
  /\ LET w0 == [waiter EXCEPT !.gets = @ \ {"initial"}]
     IN waiter' =
          IF w0.status = "gone" THEN WaitReject(cleanup(w0), "initial")
          ELSE IF w0.status = "complete"
               THEN ResolveAfter(cleanup(SawComplete(w0)), SETTLE_DELAY, "initial")
               ELSE w0
  /\ UNCHANGED queueAndRunVars

\* the listener also gives up when the tab is reported unloaded
OnUpdated_RejectUnloaded(updatedId, status) ==
  /\ waiter.status \notin {"gone", status} \/ updatedId # waiter.tabId
  /\ waiter' =
       IF updatedId # waiter.tabId THEN waiter
       ELSE LET w0 == [waiter EXCEPT !.status = status]
            IN IF ~w0.listener
               THEN IF status = "complete" THEN SawComplete(w0) ELSE w0
               ELSE IF status = "complete"
                    THEN ResolveAfter(cleanup(SawComplete(w0)), SETTLE_DELAY, "listener")
                    ELSE IF status = "unloaded"
                         THEN WaitReject(cleanup(w0), "listener")
                         ELSE w0
  /\ UNCHANGED queueAndRunVars

\* the tab updatedId changes its status and chrome.tabs.onUpdated is
\* dispatched; lines 268-281: the listener, when it is still registered
OnUpdated(updatedId, status) ==
  /\ waiter.status \notin {"gone", status} \/ updatedId # waiter.tabId
  /\ waiter' =
       IF updatedId # waiter.tabId THEN waiter
       ELSE LET w0 == [waiter EXCEPT !.status = status]
            IN IF ~w0.listener
               THEN IF status = "complete" THEN SawComplete(w0) ELSE w0
               ELSE IF status = "complete"
                    THEN ResolveAfter(cleanup(SawComplete(w0)), SETTLE_DELAY, "listener")
                    ELSE w0
  /\ UNCHANGED queueAndRunVars

\* the tab is closed
TabRemoved ==
  /\ waiter.status # "gone"
  /\ waiter' = [waiter EXCEPT !.status = "gone"]
  /\ UNCHANGED queueAndRunVars

\* lines 249-253: the timeout timer fires and asks for the tab
TimerFires ==
  /\ waiter.timer
  /\ waiter.now = waiter.timeout
  /\ waiter' = [cleanup(waiter) EXCEPT !.timer = FALSE, !.gets = @ \cup {"timeout"}]
  /\ UNCHANGED queueAndRunVars

\* the timeout rejects whatever the state of the tab
TimeoutGetCallback_AlwaysReject ==
  /\ "timeout" \in waiter.gets
  /\ LET w0 == [waiter EXCEPT !.gets = @ \ {"timeout"}, !.atTimeout = waiter.status]
     IN waiter' = WaitReject(w0, "timeout")
  /\ UNCHANGED queueAndRunVars

\* lines 253-265: callback of the chrome.tabs.get made at the timeout
TimeoutGetCallback ==
  /\ "timeout" \in waiter.gets
  /\ LET w0 == [waiter EXCEPT !.gets = @ \ {"timeout"}, !.atTimeout = waiter.status]
     IN waiter' =
          IF w0.status = "gone" THEN WaitReject(w0, "timeout")
          ELSE IF w0.status \in {"complete", "loading"}
               THEN ResolveAfter(w0, GRACE_DELAY, "timeout")
               ELSE WaitReject(w0, "timeout")
  /\ UNCHANGED queueAndRunVars

\* a timer set by setTimeout(() => resolve(true), ...) fires
DelayedResolve ==
  /\ waiter.now \in waiter.delayed
  /\ waiter' = WaitResolve([waiter EXCEPT !.delayed = @ \ {waiter.now}])
  /\ UNCHANGED queueAndRunVars

\* 200 ms pass: no callback is pending and no timer is due
Tick ==
  /\ waiter.gets = {}
  /\ ~(waiter.timer /\ waiter.now = waiter.timeout)
  /\ waiter.now \notin waiter.delayed
  /\ waiter.now < waiter.timeout + GRACE_DELAY + 200
  /\ waiter' = [waiter EXCEPT !.now = @ + 200]
  /\ UNCHANGED queueAndRunVars

WaitNext ==
  \/ InitialGetCallback
  \/ \E t \in Tabs, st \in TabStatuses : OnUpdated(t, st)
  \/ TabRemoved
  \/ TimerFires
  \/ TimeoutGetCallback
  \/ DelayedResolve
  \/ Tick

WaitSpec == WaitInit /\ [][WaitNext]_vars

\* ======================= runJobForTab, statement by statement ==========
\* One call of runJobForTab(tabId), alone in the worker, with the window of
\* the target tab: which tabs are open and which one is active.  The user
\* may activate or close a tab at any time.  A chrome.tabs call on a closed
\* tab fails; the outcomes of tabCapture, captureVisibleTab, executeScript,
\* sendMessage, storage and fetch are chosen by the environment.

\* sendToTelegram(..., retries = 3)
SEND_RETRIES == 3

\* const DEFAULT_PAGE_LOAD_TIMEOUT = 3000
DEFAULT_PAGE_LOAD_TIMEOUT == 3000

\* the values tabSettings[tabId].pageLoadTimeout is stored with (absent: the
\* default)
PageLoadTimeouts == {DEFAULT_PAGE_LOAD_TIMEOUT, 10000}

\* chrome.action.setBadgeText({ text: ... }): the check mark of line 509, the
\* cross of line 525 and the empty text of line 512
BADGE_SUCCESS == "check"

BADGE_ERROR == "cross"

BADGE_NONE == ""

\* setTimeout(..., 3000) of the success badge (line 513)
BADGE_CLEAR_DELAY == 3000

\* setTimeout(..., 3000) of tryTabCapture's timeout fallback (line 103)
TAB_CAPTURE_TIMEOUT == 3000

\* the id of the runJobForTab call in the capture chain
RunId == 1

NoError == <<>>

\* the state of one sendToTelegram call
NoSend ==
  [attempt |-> 0, requests |-> 0, failures |-> 0, sleepMs |-> 0,
   lastErr |-> "none"]

\* the tab states a retry may find: tab.status and tab.url
TabUrls ==
  {<<>>,
   <<"c", "h", "r", "o", "m", "e", ":", "/", "/", "x">>,
   <<"c", "h", "r", "o", "m", "e", ".", "x">>,
   <<"h", "t", "t", "p", "s", ":", "/", "/", "x">>}

\* 'chrome://'
ChromeScheme == <<"c", "h", "r", "o", "m", "e", ":", "/", "/">>

\* the attempt has not asked for the state of the tab
NoCheck == [readable |-> FALSE, status |-> "none", url |-> <<>>]

\* a retry skips the reload of every tab whose status is 'complete'
shouldReload_StatusOnly(attempt, readable, status, url) ==
  ~(attempt > 0 /\ readable /\ status = "complete")

\* lines 372-383: let shouldReload = true, set to false on a retry when
\* chrome.tabs.get answers with a complete tab whose url is set and is not
\* a chrome:// page
shouldReload(attempt, readable, status, url) ==
  ~(attempt > 0 /\ readable /\ status = "complete" /\ url # <<>>
      /\ ~StartsWith(url, ChromeScheme))

\* what one attempt of the retry loop has done so far
NewAttempt(r, attempt) ==
  [r EXCEPT !.attempt = attempt, !.waitFailed = FALSE, !.stepFailed = FALSE,
            !.shot = "none", !.tabCaptureFailed = FALSE, !.fcCalled = FALSE,
            !.fcOriginal = 0, !.sleepMs = 0, !.tg = NoSend, !.err = NoError,
            !.waitTimeout = 0, !.tcTimer = "none", !.tcWaited = 0,
            !.checked = NoCheck]

\* runJobForTab(tabId) has been called and awaits chrome.storage.local.get
NewRun(tabId, active, hasDates, hasFile) ==
  [tabId |-> tabId, pc |-> "config", attempt |-> 0, result |-> "running",
   originalTab |-> 0, active |-> active, open |-> Tabs, focusBy |-> "none",
   hasDates |-> hasDates, hasFile |-> hasFile,
   waitFailed |-> FALSE, stepFailed |-> FALSE, shot |-> "none",
   tabCaptureFailed |-> FALSE, fcCalled |-> FALSE, fcOriginal |-> 0,
   sleepMs |-> 0, tg |-> NoSend, err |-> NoError, queueErr |-> NoError,
   tgCalls |-> {}, notifications |-> <<>>,
   pageLoadTimeout |-> DEFAULT_PAGE_LOAD_TIMEOUT, waitTimeout |-> 0,
   badge |-> BADGE_NONE, badgeTimer |-> 0, tcTimer |-> "none", tcWaited |-> 0,
   userActed |-> FALSE, checked |-> NoCheck]

\* chrome.tabs.update(t, {active: true}) by the code at `by`: on an open tab
\* it makes t the active tab, on a closed tab it fails (and the failure is
\* caught by every caller that restores a tab)
Activate(r, t, by) ==
  IF t \in r.open /\ t # r.active
  THEN [r EXCEPT !.active = t, !.focusBy = by]
  ELSE r

\* the function returns
RunReturn(r, result) == [r EXCEPT !.pc = "done", !.result = result]

\* the error badge is shown only when no attempt is left
RunCatch_BadgeAtEnd(r, err) ==
  LET r1 == [r EXCEPT !.err = err]
  IN IF r1.attempt = DEFAULT_RETRY
     THEN IF r1.originalTab # 0 /\ r1.originalTab # r1.tabId
          THEN [r1 EXCEPT !.badge = BADGE_ERROR, !.pc = "finalRestore"]
          ELSE RunReturn([r1 EXCEPT !.badge = BADGE_ERROR], "failed")
     ELSE [r1 EXCEPT !.pc = "backoff", !.sleepMs = 800 + r1.attempt * 400]

\* the last failed attempt returns without restoring the original tab
RunCatch_NoRestore(r, err) ==
  LET r1 == [r EXCEPT !.err = err, !.badge = BADGE_ERROR]
  IN IF r1.attempt = DEFAULT_RETRY
     THEN RunReturn(r1, "failed")
     ELSE [r1 EXCEPT !.pc = "backoff", !.sleepMs = 800 + r1.attempt * 400]

\* lines 518-540: the catch block of the attempt loop: the error badge is
\* shown, then the original tab is restored or the back-off sleep begins
RunCatch(r, err) ==
  LET r1 == [r EXCEPT !.err = err, !.badge = BADGE_ERROR]
  IN IF r1.attempt = DEFAULT_RETRY
     THEN IF r1.originalTab # 0 /\ r1.originalTab # r1.tabId
          THEN [r1 EXCEPT !.pc = "finalRestore"]
          ELSE RunReturn(r1, "failed")
     ELSE [r1 EXCEPT !.pc = "backoff", !.sleepMs = 800 + r1.attempt * 400]

runOnlyVars ==
  <<tabQueues, jobs, enqueued, done, alarms, lastEvent, waiter, regions,
    loadWait>>

RunInit ==
  /\ QueuesIdle
  /\ waiter = NoWaiter
  /\ regions = NoRegions
  /\ loadWait = NoLoadWait
  /\ run \in {NewRun(t, a, d, f) :
                t \in Tabs, a \in Tabs, d \in BOOLEAN, f \in BOOLEAN}

\* ---- the window of the tab ----
\* the user activates another tab
UserActivates(t) ==
  /\ run.result = "running"
  /\ t \in run.open
  /\ t # run.active
  /\ run' = [run EXCEPT !.active = t, !.focusBy = "user", !.userActed = TRUE]
  /\ UNCHANGED <<captureQueue, runOnlyVars>>

\* a tab is closed; when it was the active one another open tab becomes active
TabCloses(t) ==
  /\ run.result = "running"
  /\ t \in run.open
  /\ LET rest == run.open \ {t}
     IN run' = [run EXCEPT !.open = rest,
                           !.active = IF run.active # t THEN @
                                      ELSE IF rest = {} THEN 0
                                      ELSE CHOOSE x \in rest : TRUE,
                           !.focusBy = IF run.active = t THEN "closed" ELSE @,
                           !.userActed = IF run.active = t THEN TRUE ELSE @]
  /\ UNCHANGED <<captureQueue, runOnlyVars>>

\* ---- runJobForTab ----
\* missing credentials are reported with the error badge
RunLoadConfig_BadgeOnMissing(outcome, pageLoadTimeout) ==
  /\ run.pc = "config"
  /\ run' = CASE outcome = "rejected" -> RunReturn(run, "threw")
              [] outcome = "nocreds" ->
                   RunReturn([run EXCEPT !.badge = BADGE_ERROR], "nocreds")
              [] OTHER -> [run EXCEPT !.pc = "lookup",
                                      !.pageLoadTimeout = pageLoadTimeout]
  /\ UNCHANGED <<captureQueue, runOnlyVars>>

\* lines 340-356: the settings arrive, or the storage read rejects
RunLoadConfig(outcome, pageLoadTimeout) ==
  /\ run.pc = "config"
  /\ run' = CASE outcome = "rejected" -> RunReturn(run, "threw")
              [] outcome = "nocreds" -> RunReturn(run, "nocreds")
              [] OTHER -> [run EXCEPT !.pc = "lookup",
                                      !.pageLoadTimeout = pageLoadTimeout]
  /\ UNCHANGED <<captureQueue, runOnlyVars>>

\* lines 353-388: the active tab of the target's window is remembered (null
\* when the target cannot be found), attempt 0 begins and reloads the tab
RunLookupOriginal ==
  /\ run.pc = "lookup"
  /\ run' = [NewAttempt(run, 0) EXCEPT
               !.originalTab = IF run.tabId \in run.open THEN run.active ELSE 0,
               !.userActed = FALSE, !.pc = "reload"]
  /\ UNCHANGED <<captureQueue, runOnlyVars>>

\* every attempt waits as long as the first one
waitTimeoutOf_Flat(attempt, pageLoadTimeout) == WaitTimeout(0)

\* line 394: const waitTimeout = 6000 + (attempt * 3000): the stored
\* pageLoadTimeout is not used
waitTimeoutOf(attempt, pageLoadTimeout) == WaitTimeout(attempt)

\* line 398: waitForTabComplete(tabId, waitTimeout) is called
CallWait(r) ==
  [r EXCEPT !.pc = "wait",
            !.waitTimeout = waitTimeoutOf(r.attempt, r.pageLoadTimeout)]

\* lines 373-391 of a retry: a tab found loaded is not reloaded
RunCheckLoaded(status, url) ==
  /\ run.pc = "check"
  /\ LET readable == run.tabId \in run.open
         r1 == [run EXCEPT !.checked = IF readable
                                      THEN [readable |-> TRUE, status |-> status,
                                            url |-> url]
                                      ELSE NoCheck]
     IN run' = IF shouldReload(run.attempt, readable, status, url)
               THEN [r1 EXCEPT !.pc = "reload"]
               ELSE CallWait(r1)
  /\ UNCHANGED <<captureQueue, runOnlyVars>>

\* the tab is focused at the start of every attempt
RunReloaded_FocusFirst ==
  /\ run.pc = "reload"
  /\ run' = IF run.tabId \in run.open
            THEN CallWait(Activate(run, run.tabId, "prepare"))
            ELSE RunCatch(run, <<"reload">>)
  /\ UNCHANGED <<captureQueue, runOnlyVars>>

\* lines 388-398: chrome.tabs.reload settles; waitForTabComplete is called
RunReloaded ==
  /\ run.pc = "reload"
  /\ run' = IF run.tabId \in run.open
            THEN CallWait(run)
            ELSE RunCatch(run, <<"reload">>)
  /\ UNCHANGED <<captureQueue, runOnlyVars>>

\* the rejection of waitForTabComplete is not caught by an inner try
WaitRejected_Fatal(r) ==
  RunCatch([r EXCEPT !.waitFailed = TRUE], <<"waitForTabComplete">>)

\* lines 399-403: catch (waitErr): logged, then sleep(2000 + attempt * 1000)
WaitRejected(r) ==
  [r EXCEPT !.waitFailed = TRUE, !.pc = "waitSleep",
            !.sleepMs = 2000 + r.attempt * 1000]

\* lines 397-408: waitForTabComplete settles
RunWaitSettles(ok) ==
  /\ run.pc = "wait"
  /\ LET r0 == [run EXCEPT !.checked = NoCheck]
     IN run' = IF ok THEN [r0 EXCEPT !.pc = "ping"] ELSE WaitRejected(r0)
  /\ UNCHANGED <<captureQueue, runOnlyVars>>

\* line 403: the sleep after a wait error ends; the ping is sent
RunWaitSleepEnds ==
  /\ run.pc = "waitSleep"
  /\ run' = [run EXCEPT !.pc = "ping"]
  /\ UNCHANGED <<captureQueue, runOnlyVars>>

\* lines 407-418: the content script answers the ping or not
RunPing(ok) ==
  /\ run.pc = "ping"
  /\ run' = [run EXCEPT !.pc = "dates"]
  /\ UNCHANGED <<captureQueue, runOnlyVars>>

\* a failing chrome.scripting.executeScript is not caught
PageStepFailed_Fatal(r, next) == RunCatch(r, <<"executeScript">>)

\* lines 427-429 and 459-462: catch (err) of a scripted page step
PageStepFailed(r, next) == [r EXCEPT !.stepFailed = TRUE, !.pc = next]

\* lines 418-432: the date range is applied when it is configured
RunApplyDates(ok) ==
  /\ run.pc = "dates"
  /\ run' = IF run.hasDates /\ ~ok THEN PageStepFailed(run, "sheet")
            ELSE [run EXCEPT !.pc = "sheet"]
  /\ UNCHANGED <<captureQueue, runOnlyVars>>

\* enqueueCaptureJob(tabId, captureFn) called by runJobForTab: behind a
\* fulfilled capture promise captureFn starts (it awaits chrome.tabs.get);
\* behind a rejected one the new promise rejects with the same error
RunEnqueueCapture(r, queue) ==
  IF queue.settled = "fulfilled"
  THEN [run |-> [r EXCEPT !.pc = "focus"],
        queue |-> [queue EXCEPT !.chain = <<RunId>>]]
  ELSE [run |-> RunCatch(r, r.queueErr), queue |-> queue]

\* lines 438-468: the sheet is downloaded when a file name is configured,
\* then the capture is enqueued
RunDownloadSheet(ok) ==
  /\ run.pc = "sheet"
  /\ LET r1 == IF run.hasFile /\ ~ok THEN PageStepFailed(run, "enqueue")
               ELSE [run EXCEPT !.pc = "enqueue"]
         w == RunEnqueueCapture(r1, captureQueue)
     IN IF r1.pc = "enqueue"
        THEN run' = w.run /\ captureQueue' = w.queue
        ELSE run' = r1 /\ UNCHANGED captureQueue
  /\ UNCHANGED runOnlyVars

\* lines 471-483: the closure focuses the target (a failure is logged) and
\* calls captureTab, which calls tryTabCapture
RunFocusTarget ==
  /\ run.pc = "focus"
  /\ run' = [Activate(run, run.tabId, "closure") EXCEPT !.pc = "tryCapture"]
  /\ UNCHANGED <<captureQueue, runOnlyVars>>

\* the error of tryTabCapture leaves captureTab: no fallback
TabCaptureFailed_NoFallback(r) ==
  [r EXCEPT !.tabCaptureFailed = TRUE, !.pc = "captureThrows"]

\* lines 161-163: catch (e) of captureTab calls focusAndCapture, which awaits
\* chrome.tabs.get
TabCaptureFailed(r) ==
  [r EXCEPT !.tabCaptureFailed = TRUE, !.fcCalled = TRUE, !.pc = "fcGet"]

\* the rejection of the capture promise is logged and not thrown again
CaptureRejects_Swallowed(r, err) ==
  [run |-> [r EXCEPT !.pc = "send",
                     !.tg = [NoSend EXCEPT !.attempt = 1, !.requests = 1],
                     !.tgCalls = @ \cup {"sendPhoto"}],
   queue |-> [settled |-> "fulfilled", chain |-> <<>>]]

\* lines 24-34 and 518: captureFn threw err: the capture promise rejects, the
\* .catch of enqueueCaptureJob throws err again, so the queue keeps the
\* rejected promise and the await in runJobForTab throws into the catch block
CaptureRejects(r, err) ==
  [run |-> RunCatch([r EXCEPT !.queueErr = err], err),
   queue |-> [settled |-> "rejected", chain |-> <<>>]]

\* lines 57-74 and 97-103: chrome.tabCapture.capture answers: without a
\* stream (or when the call throws) tryTabCapture rejects; with a stream the
\* video is created, its onloadedmetadata handler is set and the 3000 ms
\* timer is armed
RunTabCaptureStream(ok) ==
  /\ run.pc = "tryCapture"
  /\ LET r1 == IF ok THEN [run EXCEPT !.pc = "tcStream", !.tcTimer = "armed"]
               ELSE TabCaptureFailed(run)
         w == CaptureRejects(r1, <<"tabCapture not available">>)
     IN IF r1.pc = "captureThrows"
        THEN run' = w.run /\ captureQueue' = w.queue
        ELSE run' = r1 /\ UNCHANGED captureQueue
  /\ UNCHANGED runOnlyVars

\* lines 98-103: the timer fires 3000 ms after the stream was obtained:
\* video.onloadedmetadata was assigned at line 74, so the test
\* !video.onloadedmetadata is false and nothing is rejected
RunTabCaptureTimer ==
  /\ run.pc = "tcStream"
  /\ run.tcTimer = "armed"
  /\ run' = [run EXCEPT !.tcTimer = "fired", !.tcWaited = TAB_CAPTURE_TIMEOUT]
  /\ UNCHANGED <<captureQueue, runOnlyVars>>

\* lines 74-95 and 158-165: the metadata of the video loads and 300 ms
\* later the frame is drawn and encoded, or that throws: tryTabCapture
\* settles (the timer, fired or not, changes nothing afterwards)
RunTryTabCapture(ok) ==
  /\ run.pc = "tcStream"
  /\ LET r0 == [run EXCEPT !.tcTimer = "none", !.tcWaited = 0]
         r1 == IF ok THEN [r0 EXCEPT !.shot = "tabCapture", !.pc = "restore"]
               ELSE TabCaptureFailed(r0)
         w == CaptureRejects(r1, <<"tabCapture not available">>)
     IN IF r1.pc = "captureThrows"
        THEN run' = w.run /\ captureQueue' = w.queue
        ELSE run' = r1 /\ UNCHANGED captureQueue
  /\ UNCHANGED runOnlyVars

\* lines 114-124: focusAndCapture finds the target, remembers the active tab
\* of its window, focuses the target and asks for captureVisibleTab; a target
\* that cannot be found makes it throw
RunFcFocus ==
  /\ run.pc = "fcGet"
  /\ LET w == CaptureRejects(run, <<"Tab not found">>)
     IN IF run.tabId \in run.open
        THEN /\ run' = [Activate(run, run.tabId, "focusAndCapture") EXCEPT
                          !.fcOriginal = run.active, !.pc = "fcCapture"]
             /\ UNCHANGED captureQueue
        ELSE run' = w.run /\ captureQueue' = w.queue
  /\ UNCHANGED runOnlyVars

\* lines 137-145: after the screenshot the previously active tab is restored
\* when there is one and it is not the target
FcCaptured(r) ==
  IF r.fcOriginal # 0 /\ r.fcOriginal # r.tabId
  THEN [r EXCEPT !.shot = "focus", !.pc = "fcRestore"]
  ELSE [r EXCEPT !.shot = "focus", !.pc = "restore"]

\* lines 127-139: captureVisibleTab answers
RunFcCapture(ok) ==
  /\ run.pc = "fcCapture"
  /\ LET w == CaptureRejects(run, <<"captureVisibleTab error">>)
     IN IF ok THEN run' = FcCaptured(run) /\ UNCHANGED captureQueue
        ELSE run' = w.run /\ captureQueue' = w.queue
  /\ UNCHANGED runOnlyVars

\* lines 139-145: after AFTER_CAPTURE_DELAY the previously active tab is made
\* active again (a failure is ignored) and focusAndCapture returns
RunFcRestore ==
  /\ run.pc = "fcRestore"
  /\ run' = [Activate(run, run.fcOriginal, "fcRestore") EXCEPT !.pc = "restore"]
  /\ UNCHANGED <<captureQueue, runOnlyVars>>

\* sendToTelegram is called: its first sendPhoto request is sent
CallSend(r) ==
  [r EXCEPT !.pc = "send",
            !.tg = [NoSend EXCEPT !.attempt = 1, !.requests = 1],
            !.tgCalls = @ \cup {"sendPhoto"}]

\* lines 486-504: the closure restores the original tab (a failure is
\* logged) and returns the screenshot; the capture promise fulfils and
\* runJobForTab calls sendToTelegram
RunRestore ==
  /\ run.pc = "restore"
  /\ run' = CallSend(IF run.originalTab # 0 /\ run.originalTab # run.tabId
                     THEN Activate(run, run.originalTab, "restore")
                     ELSE run)
  /\ captureQueue' = [settled |-> "fulfilled", chain |-> <<>>]
  /\ UNCHANGED runOnlyVars

\* new Error(`... ${retries} ...: ${err.message}`)
DeliveryError(retries, message) ==
  <<"Telegram failed after", ToStr(retries), message>>

\* the back-off does not grow with the attempt
SendFailed_FlatBackoff(r, message) ==
  LET t == [r.tg EXCEPT !.failures = @ + 1, !.lastErr = message]
  IN IF t.attempt = SEND_RETRIES
     THEN RunCatch([r EXCEPT !.tg = t], DeliveryError(SEND_RETRIES, message))
     ELSE [r EXCEPT !.tg = [t EXCEPT !.sleepMs = 2000], !.pc = "sendSleep"]

\* lines 326-332: catch (err) of sendToTelegram's attempt
SendFailed(r, message) ==
  LET t == [r.tg EXCEPT !.failures = @ + 1, !.lastErr = message]
  IN IF t.attempt = SEND_RETRIES
     THEN RunCatch([r EXCEPT !.tg = t], DeliveryError(SEND_RETRIES, message))
     ELSE [r EXCEPT !.tg = [t EXCEPT !.sleepMs = 2000 * t.attempt],
                    !.pc = "sendSleep"]

\* lines 506-516: the success badge is shown, the timer that clears the
\* badge text is armed and the loop is left
JobSucceeded(r) ==
  RunReturn([r EXCEPT !.badge = BADGE_SUCCESS, !.badgeTimer = BADGE_CLEAR_DELAY],
            "success")

\* lines 305-324 and 506-516: the sendPhoto request is answered: success
\* ends the job, an HTTP error or a network error is a failed attempt
RunSendResponse(outcome) ==
  /\ run.pc = "send"
  /\ run' = IF outcome = "ok" THEN JobSucceeded(run)
            ELSE SendFailed(run, outcome)
  /\ UNCHANGED <<captureQueue, runOnlyVars>>

\* lines 331 and 304-316: the sleep ends and the next request is sent
RunSendSleepEnds ==
  /\ run.pc = "sendSleep"
  /\ run' = [run EXCEPT !.pc = "send", !.tg.attempt = @ + 1,
                        !.tg.requests = @ + 1]
  /\ UNCHANGED <<captureQueue, runOnlyVars>>

\* lines 538 and 364-375: the back-off sleep ends, the next attempt begins
\* and asks for the state of the tab
RunBackoffEnds ==
  /\ run.pc = "backoff"
  /\ run' = [NewAttempt(run, run.attempt + 1) EXCEPT !.pc = "check"]
  /\ UNCHANGED <<captureQueue, runOnlyVars>>

\* lines 530-535: after the last attempt the original tab is made active
\* again (a failure is ignored) and the function returns
RunFinalRestore ==
  /\ run.pc = "finalRestore"
  /\ run' = RunReturn(Activate(run, run.originalTab, "finalRestore"), "failed")
  /\ UNCHANGED <<captureQueue, runOnlyVars>>

\* lines 511-513: the timer of the success badge fires
BadgeTimerFires ==
  /\ run.badgeTimer > 0
  /\ run' = [run EXCEPT !.badge = BADGE_NONE, !.badgeTimer = 0]
  /\ UNCHANGED <<captureQueue, runOnlyVars>>

RunNext ==
  \/ \E t \in Tabs : UserActivates(t)
  \/ \E t \in Tabs : TabCloses(t)
  \/ \E o \in {"ok", "nocreds", "rejected"}, p \in PageLoadTimeouts :
       RunLoadConfig(o, p)
  \/ RunLookupOriginal
  \/ \E st \in {"complete", "loading"}, url \in TabUrls : RunCheckLoaded(st, url)
  \/ RunReloaded
  \/ \E ok \in BOOLEAN : RunWaitSettles(ok)
  \/ RunWaitSleepEnds
  \/ \E ok \in BOOLEAN : RunPing(ok)
  \/ \E ok \in BOOLEAN : RunApplyDates(ok)
  \/ \E ok \in BOOLEAN : RunDownloadSheet(ok)
  \/ RunFocusTarget
  \/ \E ok \in BOOLEAN : RunTabCaptureStream(ok)
  \/ RunTabCaptureTimer
  \/ \E ok \in BOOLEAN : RunTryTabCapture(ok)
  \/ RunFcFocus
  \/ \E ok \in BOOLEAN : RunFcCapture(ok)
  \/ RunFcRestore
  \/ RunRestore
  \/ \E o \in {"ok", "http", "network"} : RunSendResponse(o)
  \/ RunSendSleepEnds
  \/ RunBackoffEnds
  \/ RunFinalRestore
  \/ BadgeTimerFires

RunSpec == RunInit /\ [][RunNext]_vars

\* the steps of the job that end when a browser API call, an HTTP request or
\* a timer returns; the others are events that need not happen: the user
\* changes or closes a tab, the video element fires loadedmetadata
RunReturns ==
  \/ \E o \in {"ok", "nocreds", "rejected"}, p \in PageLoadTimeouts :
       RunLoadConfig(o, p)
  \/ RunLookupOriginal
  \/ \E st \in {"complete", "loading"}, url \in TabUrls : RunCheckLoaded(st, url)
  \/ RunReloaded
  \/ \E ok \in BOOLEAN : RunWaitSettles(ok)
  \/ RunWaitSleepEnds
  \/ \E ok \in BOOLEAN : RunPing(ok)
  \/ \E ok \in BOOLEAN : RunApplyDates(ok)
  \/ \E ok \in BOOLEAN : RunDownloadSheet(ok)
  \/ RunFocusTarget
  \/ \E ok \in BOOLEAN : RunTabCaptureStream(ok)
  \/ RunTabCaptureTimer
  \/ RunFcFocus
  \/ \E ok \in BOOLEAN : RunFcCapture(ok)
  \/ RunFcRestore
  \/ RunRestore
  \/ \E o \in {"ok", "http", "network"} : RunSendResponse(o)
  \/ RunSendSleepEnds
  \/ RunBackoffEnds
  \/ RunFinalRestore
  \/ BadgeTimerFires

\* every pending call, request and timer of the job eventually returns
RunLiveSpec == RunInit /\ [][RunNext]_vars /\ WF_vars(RunReturns)

\* ======================= capture regions =======================
\* Lengths are CSS pixels (the content script rounds them to integers); a
\* device pixel ratio is counted in quarters, so 4 is 1.0 and 6 is 1.5, and
\* 0 stands for a missing dpr.  Positions in an image are quarters of a
\* device pixel.

NoRegion == [x |-> 0, y |-> 0, width |-> 0, height |-> 0]

\* the {region, dpr} of a saveCaptureRegion message
RegionRequests ==
  {[region |-> [x |-> 1, y |-> 1, width |-> 3, height |-> 1], dpr |-> 6],
   [region |-> [x |-> 2, y |-> 1, width |-> 2, height |-> 2], dpr |-> 0],
   [region |-> [x |-> 0, y |-> 2, width |-> 0, height |-> 2], dpr |-> 8]}

\* the screenshot captureTab has obtained, before cropping
RawImage == [w |-> 12, h |-> 8, ox |-> 0, oy |-> 0]

\* CAPTURE_REGIONS.get(tabId) of a tab without entry
NoCached == [has |-> FALSE, region |-> NoRegion, dpr |-> 0]

\* CAPTURE_REGIONS.set(tabId, {region, dpr})
Cached(region, dpr) == [has |-> TRUE, region |-> region, dpr |-> dpr]

\* tabSettings[tabId] of a tab without settings
NoSettings ==
  [exists |-> FALSE, hasRegion |-> FALSE, captureRegion |-> NoRegion, dpr |-> 0]

\* tabSettings[tabId] = {} and the entry after the two deletes of line 982
EmptySettings == [NoSettings EXCEPT !.exists = TRUE]

\* tabSettings[tabId].captureRegion = region; tabSettings[tabId].dpr = dpr
WithRegion(region, dpr) ==
  [exists |-> TRUE, hasRegion |-> TRUE, captureRegion |-> region, dpr |-> dpr]

\* dpr || 1
DprOrOne(dpr) == IF dpr = 0 THEN 4 ELSE dpr

\* no request of the tab is being processed
NoOp ==
  [kind |-> "none", phase |-> "idle", region |-> NoRegion, dpr |-> 0,
   tabSettings |-> [t \in Tabs |-> NoSettings]]

\* captureTab is not running
NoCapture ==
  [pc |-> "idle", tabId |-> 0, hasRegion |-> FALSE, region |-> NoRegion,
   dpr |-> 4, cropCalled |-> FALSE, cropped |-> FALSE, image |-> RawImage]

\* lines 208-225: cropImage throws into its catch: the image cannot be
\* decoded or encoded, or the canvas has no pixels (a size below 1)
CropThrows(region, dpr, decodes) ==
  \/ ~decodes
  \/ (region.width * dpr) \div 4 <= 0
  \/ (region.height * dpr) \div 4 <= 0

\* the size of the canvas is rounded up
cropImage_Ceiling(imageDataUrl, region, dpr, decodes) ==
  LET clipW == (region.width * dpr + 3) \div 4
      clipH == (region.height * dpr + 3) \div 4
  IN IF ~decodes \/ clipW <= 0 \/ clipH <= 0
     THEN imageDataUrl
     ELSE [w |-> clipW, h |-> clipH,
           ox |-> imageDataUrl.ox + region.x * dpr,
           oy |-> imageDataUrl.oy + region.y * dpr]

\* lines 207-234: cropImage: the canvas has the integer parts of
\* region.width * dpr and region.height * dpr as its size, drawImage copies
\* the source from (region.x * dpr, region.y * dpr) to its origin without
\* scaling; when decoding, a canvas without pixels or encoding throws, the
\* image is returned as it came
cropImage(imageDataUrl, region, dpr, decodes) ==
  LET clipW == (region.width * dpr) \div 4
      clipH == (region.height * dpr) \div 4
  IN IF ~decodes \/ clipW <= 0 \/ clipH <= 0
     THEN imageDataUrl
     ELSE [w |-> clipW, h |-> clipH,
           ox |-> imageDataUrl.ox + region.x * dpr,
           oy |-> imageDataUrl.oy + region.y * dpr]

regionOnlyVars ==
  <<tabQueues, captureQueue, jobs, enqueued, done, alarms, lastEvent, waiter,
    run, loadWait>>

\* the service worker has just started: the Map is empty, the storage holds
\* what earlier runs of the worker and the popup have left
RegionInit ==
  /\ QueuesIdle
  /\ waiter = NoWaiter
  /\ run = NoRun
  /\ loadWait = NoLoadWait
  /\ regions \in
       {[CAPTURE_REGIONS |-> [t \in Tabs |-> NoCached],
         tabSettings |-> ts,
         ops |-> [t \in Tabs |-> NoOp],
         capture |-> NoCapture] :
          ts \in [Tabs -> {NoSettings, EmptySettings}
                            \cup {WithRegion(m.region, m.dpr) : m \in RegionRequests}]}

\* lines 953-971: the saveCaptureRegion message of the content script of
\* tab tabId: the Map is written, the stored settings are asked for and the
\* response is sent
SaveCaptureRegion(tabId, req) ==
  /\ regions.ops[tabId].phase = "idle"
  /\ regions' = [regions EXCEPT
                   !.CAPTURE_REGIONS[tabId] = Cached(req.region, req.dpr),
                   !.ops[tabId] = [NoOp EXCEPT !.kind = "save", !.phase = "get",
                                               !.region = req.region,
                                               !.dpr = req.dpr]]
  /\ UNCHANGED regionOnlyVars

\* lines 973-990: the clearCaptureRegion message of the popup
ClearCaptureRegion(tabId) ==
  /\ regions.ops[tabId].phase = "idle"
  /\ regions' = [regions EXCEPT
                   !.CAPTURE_REGIONS[tabId] = NoCached,
                   !.ops[tabId] = [NoOp EXCEPT !.kind = "clear", !.phase = "get"]]
  /\ UNCHANGED regionOnlyVars

\* lines 960-967 and 978-986: the callback of chrome.storage.local.get: the
\* entry of the tab is changed in the object that was read and the whole
\* object is handed to chrome.storage.local.set (a clear request for a tab
\* without settings writes nothing)
StorageGetCallback(tabId) ==
  /\ regions.ops[tabId].phase = "get"
  /\ LET op == regions.ops[tabId]
         data == regions.tabSettings
     IN regions' =
          IF op.kind = "save"
          THEN [regions EXCEPT
                  !.ops[tabId].phase = "set",
                  !.ops[tabId].tabSettings =
                     [data EXCEPT ![tabId] = WithRegion(op.region, op.dpr)]]
          ELSE IF data[tabId].exists
               THEN [regions EXCEPT
                       !.ops[tabId].phase = "set",
                       !.ops[tabId].tabSettings =
                          [data EXCEPT ![tabId] = EmptySettings]]
               ELSE [regions EXCEPT !.ops[tabId] = NoOp]
  /\ UNCHANGED regionOnlyVars

\* lines 966 and 984: chrome.storage.local.set({ tabSettings }) is carried
\* out: the stored object is replaced and the request is complete
StorageSetApplied(tabId) ==
  /\ regions.ops[tabId].phase = "set"
  /\ regions' = [regions EXCEPT
                   !.tabSettings = regions.ops[tabId].tabSettings,
                   !.ops[tabId] = NoOp]
  /\ UNCHANGED regionOnlyVars

\* the image is cropped whenever a region object is known
CropDecision_AnyRegion(c, has, region, dpr) ==
  IF has
  THEN [c EXCEPT !.pc = "crop", !.hasRegion = TRUE, !.region = region,
                 !.dpr = dpr]
  ELSE [c EXCEPT !.pc = "done", !.hasRegion = has, !.region = region,
                 !.dpr = dpr]

\* lines 195-203: if (region && region.width > 0 && region.height > 0)
\* cropImage is called, otherwise the screenshot is returned
CropDecision(c, has, region, dpr) ==
  IF has /\ region.width > 0 /\ region.height > 0
  THEN [c EXCEPT !.pc = "crop", !.hasRegion = TRUE, !.region = region,
                 !.dpr = dpr]
  ELSE [c EXCEPT !.pc = "done", !.hasRegion = has, !.region = region,
                 !.dpr = dpr]

\* lines 167-181: captureTab(tabId) has its screenshot and looks for the
\* region: in the Map first, otherwise it asks the storage
CaptureLookup(tabId) ==
  /\ regions.capture.pc \in {"idle", "done"}
  /\ LET c == [NoCapture EXCEPT !.tabId = tabId]
         cached == regions.CAPTURE_REGIONS[tabId]
     IN regions' =
          [regions EXCEPT
             !.capture = IF cached.has
                         THEN CropDecision(c, TRUE, cached.region,
                                           DprOrOne(cached.dpr))
                         ELSE [c EXCEPT !.pc = "storage"]]
  /\ UNCHANGED regionOnlyVars

\* lines 181-201: the storage answers (or the read throws and is logged): a
\* stored region is put back into the Map
CaptureStorageAnswer(ok) ==
  /\ regions.capture.pc = "storage"
  /\ LET c == regions.capture
         s == regions.tabSettings[c.tabId]
     IN regions' =
          IF ok /\ s.exists /\ s.hasRegion
          THEN [regions EXCEPT
                  !.CAPTURE_REGIONS[c.tabId] =
                     Cached(s.captureRegion, DprOrOne(s.dpr)),
                  !.capture = CropDecision(c, TRUE, s.captureRegion,
                                           DprOrOne(s.dpr))]
          ELSE [regions EXCEPT !.capture = CropDecision(c, FALSE, NoRegion, 4)]
  /\ UNCHANGED regionOnlyVars

\* line 198: cropImage returns
CaptureCrop(decodes) ==
  /\ regions.capture.pc = "crop"
  /\ LET c == regions.capture
     IN regions' =
          [regions EXCEPT
             !.capture = [c EXCEPT !.pc = "done", !.cropCalled = TRUE,
                                   !.cropped = ~CropThrows(c.region, c.dpr,
                                                           decodes),
                                   !.image = cropImage(c.image, c.region,
                                                       c.dpr, decodes)]]
  /\ UNCHANGED regionOnlyVars

RegionNext ==
  \/ \E t \in Tabs, m \in RegionRequests : SaveCaptureRegion(t, m)
  \/ \E t \in Tabs : ClearCaptureRegion(t)
  \/ \E t \in Tabs : StorageGetCallback(t)
  \/ \E t \in Tabs : StorageSetApplied(t)
  \/ \E t \in Tabs : CaptureLookup(t)
  \/ \E ok \in BOOLEAN : CaptureStorageAnswer(ok)
  \/ \E decodes \in BOOLEAN : CaptureCrop(decodes)

RegionSpec == RegionInit /\ [][RegionNext]_vars

\* ======================= loading-indicator wait =======================
\* Step 2 of applyDateRangeFunction runs inside the page.  Times are
\* milliseconds; elapsed is Date.now() - t0 of the current call of the
\* step function.

\* while (Date.now() - t0 < 12000) (line 680)
DATA_LOAD_TIMEOUT == 12000

\* await delay(200) (lines 684 and 691)
POLL_DELAY == 200

\* retry(..., 2, 1000) (line 701)
STEP_RETRIES == 2
STEP_RETRY_DELAY == 1000

\* retry has called the step function for the first time: seen = false,
\* t0 = Date.now()
NewLoadWait(present) ==
  [pc |-> "poll", i |-> 0, elapsed |-> 0, seen |-> FALSE, present |-> present,
   result |-> "running", how |-> "none", sleepMs |-> 0]

loadWaitOnlyVars ==
  <<tabQueues, captureQueue, jobs, enqueued, done, alarms, lastEvent, waiter,
    run, regions>>

LoadWaitInit ==
  /\ QueuesIdle
  /\ waiter = NoWaiter
  /\ run = NoRun
  /\ regions = NoRegions
  /\ loadWait \in {NewLoadWait(p) : p \in BOOLEAN}

\* the page shows or removes the progress indicator
IndicatorChanges ==
  /\ loadWait.pc \in {"poll", "delay", "retryDelay"}
  /\ loadWait' = [loadWait EXCEPT !.present = ~@]
  /\ UNCHANGED loadWaitOnlyVars

\* the step function returns: retry returns and step 2 is over
StepReturns(lw, how) ==
  [lw EXCEPT !.pc = "done", !.result = "ok", !.how = how]

\* lines 594-598 and 702-704: catch (e) of retry: the last try throws the
\* error on, and the catch around step 2 logs a warning; an earlier try is
\* followed by delay(delayMs * (i + 1))
retryCatch(lw) ==
  IF lw.i = STEP_RETRIES - 1
  THEN [lw EXCEPT !.pc = "done", !.result = "failed", !.how = "timeout"]
  ELSE [lw EXCEPT !.pc = "retryDelay", !.sleepMs = STEP_RETRY_DELAY * (lw.i + 1)]

\* lines 680-700: the loop test and one pass of the loop body up to its
\* await, or the statements after the loop
StepPoll(lw) ==
  IF lw.elapsed < DATA_LOAD_TIMEOUT
  THEN IF lw.present THEN [lw EXCEPT !.seen = TRUE, !.pc = "delay"]
       ELSE IF lw.seen THEN StepReturns(lw, "hidden")
       ELSE [lw EXCEPT !.pc = "delay"]
  ELSE IF ~lw.seen THEN StepReturns(lw, "never")
  ELSE retryCatch(lw)

LoadWaitPoll ==
  /\ loadWait.pc = "poll"
  /\ loadWait' = StepPoll(loadWait)
  /\ UNCHANGED loadWaitOnlyVars

\* lines 684 and 691: delay(200) is over
LoadWaitDelayEnds ==
  /\ loadWait.pc = "delay"
  /\ loadWait' = [loadWait EXCEPT !.pc = "poll", !.elapsed = @ + POLL_DELAY]
  /\ UNCHANGED loadWaitOnlyVars

\* lines 591-598 and 677-678: the delay of retry is over and the step
\* function is called again: seen = false, t0 = Date.now()
LoadWaitRetry ==
  /\ loadWait.pc = "retryDelay"
  /\ loadWait' = [loadWait EXCEPT !.pc = "poll", !.i = @ + 1, !.elapsed = 0,
                                  !.seen = FALSE, !.sleepMs = 0]
  /\ UNCHANGED loadWaitOnlyVars

LoadWaitNext ==
  \/ IndicatorChanges
  \/ LoadWaitPoll
  \/ LoadWaitDelayEnds
  \/ LoadWaitRetry

LoadWaitSpec == LoadWaitInit /\ [][LoadWaitNext]_vars

\* ======================= Properties =======================

\* a job body is executing: runJobForTab was called and has not settled
Executing(j) == j \in DOMAIN jobs /\ jobs[j].pc # "queued"

LiveOfTab(t) == {j \in DOMAIN jobs : jobs[j].tab = t}

AlarmsOfTab(t) == {a \in alarms : ParseAlarmTabId(a.name) = t}

\* the registered alarms, each with the tab id its name decodes to
DecodedAlarms == {<<ParseAlarmTabId(a.name), a>> : a \in alarms}

\* C1: for every tab id, under every interleaving of start messages, stop
\* messages and alarm fires, at most one runJobForTab body of that tab is
\* executing (its retry attempts and back-off sleeps included).
C1_OneJobBodyPerTab ==
  \A j, k \in DOMAIN jobs :
    (j # k /\ jobs[j].tab = jobs[k].tab) => ~(Executing(j) /\ Executing(k))

\* a job sleeps in its back-off while a second trigger of the same tab waits
C1_Witness ==
  \E j, k \in DOMAIN jobs :
    /\ jobs[j].tab = jobs[k].tab
    /\ jobs[j].pc = "backoff"
    /\ jobs[k].pc = "queued"

\* C2: across all tabs at most one capture function passed to
\* enqueueCaptureJob is executing at any instant.
C2_OneCaptureAtATime ==
  Cardinality({j \in DOMAIN jobs : jobs[j].pc = "capture"}) <= 1

\* the capture of one tab runs while the capture of another tab waits
C2_Witness ==
  \E j, k \in DOMAIN jobs :
    /\ jobs[j].tab # jobs[k].tab
    /\ jobs[j].pc = "capture"
    /\ jobs[k].pc = "capWait"

\* C3: a job enqueued after another job of the same tab does not begin
\* before that job has settled, so the jobs of a tab begin in enqueue order:
\* of the unsettled jobs of a tab only the earliest has begun, and each later
\* one is chained behind its unsettled predecessor.
C3_FifoPerTab ==
  \A j, k \in DOMAIN jobs :
    (j < k /\ jobs[j].tab = jobs[k].tab) =>
      /\ jobs[k].pc = "queued"
      /\ jobs[k].prev \in DOMAIN jobs
      /\ jobs[k].prev >= j
      /\ jobs[jobs[k].prev].tab = jobs[k].tab

\* trigger A is in its capture step and trigger B of the same tab waits
C3_Witness ==
  \E j, k \in DOMAIN jobs :
    /\ j < k
    /\ jobs[j].tab = jobs[k].tab
    /\ jobs[j].pc = "capture"
    /\ jobs[k].pc = "queued"
    /\ jobs[k].prev = j

\* C4: a failing job never leaves the chain of its tab in a state where a
\* later jobFn is skipped: no job settles without having been called, and a
\* job that has not been called waits behind an unsettled job of its tab.
C4_FailureDoesNotBlockQueue ==
  /\ \A d \in done : d.result # "skipped"
  /\ \A j \in DOMAIN jobs :
       jobs[j].pc = "queued" => jobs[j].prev \in DOMAIN jobs

\* the first job's jobFn rejected while the second job was chained behind
\* it, and the second job is executing
C4_Witness ==
  /\ enqueued = 2
  /\ \E d \in done : d.result = "threw"
  /\ \E j \in DOMAIN jobs : jobs[j].prev = 1 /\ Executing(j)

\* C5 as stated: the promise returned by enqueueTabJob resolves when jobFn
\* resolves and rejects when jobFn rejects.
C5_PromiseHasJobOutcome ==
  \A d \in done :
    /\ JobFnOutcome(d.result) = "resolved" => d.promise = "fulfilled"
    /\ JobFnOutcome(d.result) = "rejected" => d.promise = "rejected"

\* C5 amended: the promise returned by enqueueTabJob never rejects; it
\* fulfils when jobFn resolves and also when jobFn rejects.
C5_PromiseAlwaysFulfils ==
  \A d \in done : d.promise = "fulfilled"

\* a job whose jobFn rejected has settled with a fulfilled queue promise
C5_Witness ==
  \E d \in done : JobFnOutcome(d.result) = "rejected" /\ d.promise = "fulfilled"

\* C6: a job that fails on every attempt runs exactly DEFAULT_RETRY + 1 = 3
\* attempts: the failed outcome is reached only after the third attempt and
\* no job ever begins a fourth.
C6_ExactlyThreeAttempts ==
  /\ DEFAULT_RETRY + 1 = 3
  /\ \A d \in done :
       /\ d.attempts <= DEFAULT_RETRY + 1
       /\ d.result = "failed" => d.attempts = DEFAULT_RETRY + 1
  /\ \A j \in DOMAIN jobs :
       /\ jobs[j].attempts <= DEFAULT_RETRY + 1
       /\ jobs[j].attempts =
            IF jobs[j].pc \in {"queued", "config"} THEN 0 ELSE jobs[j].attempt + 1

\* a job has ended in failure
C6_Witness == \E d \in done : d.result = "failed" /\ d.attempts = 3

\* C7: a startAutoSend request {tabId, interval} enqueues exactly one run of
\* runJobForTab(tabId) at the tail of that tab's queue (called at once when
\* the tab has no unsettled job), registers the alarm autoSend_<tabId> with
\* delay and period equal to interval, and responds 'started'.
C7_StartStep ==
  (enqueued' # enqueued /\ lastEvent'.action = "startAutoSend") =>
    LET t == lastEvent'.tabId
        new == enqueued'
    IN /\ new = enqueued + 1
       /\ DOMAIN jobs' = (DOMAIN jobs) \cup {new}
       /\ \A j \in DOMAIN jobs : jobs'[j] = jobs[j]
       /\ jobs'[new].tab = t
       /\ jobs'[new].prev = QueueGet(tabQueues, t)
       /\ jobs'[new].pc = IF LiveOfTab(t) = {} THEN "config" ELSE "queued"
       /\ QueueGet(tabQueues', t) = new
       /\ {a \in alarms' : a.name = AlarmName(t)} =
            {[name |-> AlarmName(t), delayInMinutes |-> lastEvent'.interval,
              periodInMinutes |-> lastEvent'.interval]}
       /\ lastEvent'.status = "started"

C7_StartAutoSend == [][C7_StartStep]_vars

\* start for tab 42 with interval 10 has just been handled
C7_Witness ==
  /\ lastEvent = Event("startAutoSend", 42, 10, <<>>, "started")
  /\ enqueued \in DOMAIN jobs
  /\ jobs[enqueued].tab = 42
  /\ jobs[enqueued].pc = "config"
  /\ \E a \in alarms :
       a.name = AlarmName(42) /\ a.delayInMinutes = 10 /\ a.periodInMinutes = 10

\* C8: after any sequence of start and stop requests at most one autoSend
\* alarm is registered per tab id, and once a stop for a tab has been
\* handled no alarm of that tab remains.
C8_OneAlarmPerTab ==
  LET decoded == DecodedAlarms
  IN /\ \A x, y \in decoded : x[1] = y[1] => x = y
     /\ \A x \in decoded : x[1] \in Tabs
     /\ lastEvent.action = "stopAutoSend" =>
          \A x \in decoded : x[1] # lastEvent.tabId

\* a tab that had been started (it has a job) has been stopped while the
\* other tab keeps its alarm
C8_Witness ==
  /\ lastEvent.action = "stopAutoSend"
  /\ LiveOfTab(lastEvent.tabId) # {}
  /\ alarms # {}

\* C9: a stopAutoSend request for a tab without a registered alarm changes
\* neither the alarms nor any queue and responds 'stopped'.
C9_StopStep ==
  (lastEvent' # lastEvent /\ lastEvent'.action = "stopAutoSend"
     /\ AlarmsOfTab(lastEvent'.tabId) = {}) =>
    /\ alarms' = alarms
    /\ UNCHANGED queueVars
    /\ lastEvent'.status = "stopped"

C9_StopIsNoOp == [][C9_StopStep]_vars

\* tab 42 was stopped although it was never started, while tab 7 has an
\* alarm and an unsettled job
C9_Witness ==
  /\ lastEvent = Event("stopAutoSend", 42, 0, <<>>, "stopped")
  /\ LiveOfTab(42) = {}
  /\ \A d \in done : d.tab # 42
  /\ AlarmsOfTab(7) # {}
  /\ LiveOfTab(7) # {}

\* C10: every fire of an alarm autoSend_<tabId> only enqueues runJobForTab
\* at the tail of the queue of the tab id decoded from the name, which is the
\* tab id the start request encoded: the new job waits behind an unsettled
\* job of that tab and no other job is touched.
C10_AlarmStep ==
  ((lastEvent' # lastEvent \/ enqueued' # enqueued)
     /\ lastEvent'.action = "onAlarm") =>
    LET new == enqueued'
    IN /\ new = enqueued + 1
       /\ \E t \in Tabs :
            /\ lastEvent'.name = AlarmName(t)
            /\ ParseAlarmTabId(lastEvent'.name) = t
            /\ jobs'[new].tab = t
            /\ jobs'[new].prev = QueueGet(tabQueues, t)
            /\ jobs'[new].pc = IF LiveOfTab(t) = {} THEN "config" ELSE "queued"
            /\ QueueGet(tabQueues', t) = new
       /\ DOMAIN jobs' = (DOMAIN jobs) \cup {new}
       /\ \A j \in DOMAIN jobs : jobs'[j] = jobs[j]
       /\ UNCHANGED <<alarms, captureQueue, done>>

C10_AlarmOnlyEnqueues == [][C10_AlarmStep]_vars

\* a scheduled run of tab 42 waits behind the unsettled run of tab 42
C10_Witness ==
  /\ lastEvent.action = "onAlarm"
  /\ ParseAlarmTabId(lastEvent.name) = 42
  /\ enqueued \in DOMAIN jobs
  /\ jobs[enqueued].tab = 42
  /\ jobs[enqueued].pc = "queued"
  /\ Executing(jobs[enqueued].prev)
  /\ jobs[jobs[enqueued].prev].tab = 42

\* C11: when the tab reports 'complete' at a time T before the
\* timeout (found complete by the initial lookup or reported by an update
\* event), waitForTabComplete resolves at T + 600 ms: it is never rejected,
\* it is settled at no other time, and it is settled once T + 600 has passed.
C11_ResolvesAfterSettleDelay ==
  (waiter.completeAt >= 0 /\ waiter.completeAt < waiter.timeout) =>
    /\ waiter.promise # "rejected"
    /\ waiter.promise = "fulfilled" =>
         waiter.settledAt = waiter.completeAt + SETTLE_DELAY
    /\ waiter.now > waiter.completeAt + SETTLE_DELAY =>
         waiter.promise = "fulfilled"

\* C12: when the timeout elapses without 'complete' having been seen, a tab
\* found 'loading' or 'complete' makes the waiter resolve 800 ms later, and a
\* tab with another status or a tab that cannot be found makes it reject.
C12_TimeoutResolvesOrRejects ==
  waiter.atTimeout # "none" =>
    IF waiter.atTimeout \in {"loading", "complete"}
    THEN /\ waiter.promise # "rejected"
         /\ waiter.promise = "fulfilled" =>
              waiter.settledAt = waiter.timeout + GRACE_DELAY
         /\ waiter.now > waiter.timeout + GRACE_DELAY =>
              waiter.promise = "fulfilled"
    ELSE /\ waiter.promise = "rejected"
         /\ waiter.settledAt = waiter.timeout

\* the tab was still loading at the timeout and the waiter has resolved
C12_Witness ==
  /\ waiter.atTimeout = "loading"
  /\ waiter.promise = "fulfilled"
  /\ waiter.settledAt = waiter.timeout + GRACE_DELAY

\* C13 as stated: waitForTabComplete never rejects before timeoutMs has
\* passed since the call.
C13_RejectsOnlyAtTimeout ==
  waiter.promise = "rejected" => waiter.settledAt >= waiter.timeout

\* C13 amended: waitForTabComplete rejects only at two moments: right after
\* the call, when the initial lookup does not find the tab, or at the moment
\* its timeout elapses.
C13_RejectsAtLookupOrTimeout ==
  waiter.promise = "rejected" =>
    \/ waiter.rejectedBy = "initial" /\ waiter.settledAt = 0
    \/ waiter.rejectedBy = "timeout" /\ waiter.settledAt = waiter.timeout

\* the tab was closed before the initial lookup: rejected at once
C13_Witness ==
  /\ waiter.promise = "rejected"
  /\ waiter.rejectedBy = "initial"
  /\ waiter.settledAt = 0
  /\ waiter.now > 0

\* the pcs of an attempt after its readiness wait
AfterWaitPcs ==
  {"ping", "dates", "sheet", "focus", "tryCapture", "tcStream", "fcGet", "fcCapture",
   "fcRestore", "restore", "send", "sendSleep"}

\* the pcs at which the catch block of the attempt loop leaves the attempt
CaughtPcs == {"backoff", "finalRestore", "done"}

C14_Step ==
  /\ (run.pc = "wait" /\ run'.pc # "wait") =>
       \/ run'.pc = "ping" /\ ~run'.waitFailed
       \/ /\ run'.pc = "waitSleep"
          /\ run'.waitFailed
          /\ run'.sleepMs = 2000 + run.attempt * 1000
          /\ run'.attempt = run.attempt
          /\ run'.err = NoError
  /\ (run.pc = "waitSleep" /\ run'.pc # "waitSleep") =>
       /\ run'.pc = "ping"
       /\ run'.waitFailed
       /\ run'.attempt = run.attempt
       /\ run'.err = NoError

C15_Step ==
  /\ (run.pc = "dates" /\ run'.pc # "dates") =>
       /\ run'.pc = "sheet"
       /\ run'.attempt = run.attempt
       /\ run'.err = NoError
  /\ (run.pc = "sheet" /\ run'.pc # "sheet") =>
       IF captureQueue.settled = "fulfilled"
       THEN /\ run'.pc = "focus"
            /\ captureQueue'.chain = <<RunId>>
            /\ run'.attempt = run.attempt
            /\ run'.err = NoError
       ELSE /\ run'.pc \in CaughtPcs
            /\ run'.err = run.queueErr
  /\ (run'.stepFailed /\ run'.err # NoError) => run'.err # <<"executeScript">>

\* C15: a failing scripted page step (date range or sheet download) never
\* fails the attempt: after the date step the sheet step follows, after the
\* sheet step the capture is enqueued, and the error an attempt ends with is
\* never the error of a page step.
C15_PageStepFailureNotFatal == [][C15_Step]_vars

\* a job has succeeded in an attempt in which a page step had failed
C15_Witness == run.stepFailed /\ run.result = "success"

C16_Step ==
  /\ run'.tabCaptureFailed => run'.fcCalled
  /\ (run.pc \in {"tryCapture", "tcStream"} /\ run'.pc # run.pc
        /\ run'.tabCaptureFailed) =>
       run'.pc = "fcGet"
  /\ (run.pc = "fcCapture" /\ run'.pc = "restore") =>
       run.fcOriginal \in {0, run.tabId}
  /\ (run.pc = "fcRestore" /\ run'.pc # "fcRestore") =>
       /\ run'.pc = "restore"
       /\ run.fcOriginal \in run.open => run'.active = run.fcOriginal

\* C16: whenever tryTabCapture fails in captureTab, focusAndCapture is
\* invoked; when focusAndCapture has its screenshot it returns only after it
\* has made the tab that was active before it took focus active again (when
\* that tab is another tab than the target and is still open).
C16_FallbackAndRestore == [][C16_Step]_vars

\* focusAndCapture has returned a screenshot after restoring the tab the
\* user had switched to
C16_Witness ==
  /\ run.pc = "restore"
  /\ run.shot = "focus"
  /\ run.tabCaptureFailed
  /\ run.fcOriginal # run.tabId
  /\ run.active = run.fcOriginal
  /\ run.focusBy = "fcRestore"

C17_Step ==
  (run.pc \in {"fcGet", "fcCapture"}
     /\ run'.pc \notin {"fcGet", "fcCapture", "fcRestore", "restore"}) =>
    /\ run.tabCaptureFailed
    /\ captureQueue'.settled = "rejected"
    /\ run'.err # NoError
    /\ run'.err = run'.queueErr
    /\ run'.tg = NoSend
    /\ run'.result # "success"
    /\ run'.pc = IF run.attempt < DEFAULT_RETRY THEN "backoff"
                 ELSE IF run.originalTab \in {0, run.tabId} THEN "done"
                 ELSE "finalRestore"

\* C17: when tryTabCapture and focusAndCapture both fail, the error leaves
\* captureTab and enqueueCaptureJob (the capture promise is rejected), the
\* attempt enters the catch block of the retry loop and no delivery request
\* has been made in it.
C17_BothCapturesFail == [][C17_Step]_vars

\* both capture methods failed in an attempt that is now backing off
C17_Witness ==
  /\ run.pc = "backoff"
  /\ run.tabCaptureFailed
  /\ run.fcCalled
  /\ run.err = <<"captureVisibleTab error">>
  /\ captureQueue.settled = "rejected"
  /\ run.tg.requests = 0

\* C18: sendToTelegram makes at most `retries` (3) requests, returns at the
\* first successful one, sleeps 2000 * k ms after the k-th failed request,
\* and throws only after request number `retries` has failed, with the last
\* error's message in the error it throws.
C18_SendToTelegram ==
  LET t == run.tg
  IN /\ t.requests <= SEND_RETRIES
     /\ t.requests = t.attempt
     /\ run.pc = "send" => t.failures = t.requests - 1
     /\ run.pc = "sendSleep" =>
          /\ t.failures = t.attempt
          /\ t.attempt < SEND_RETRIES
          /\ t.sleepMs = 2000 * t.attempt
     /\ run.result = "success" => (t.requests >= 1 /\ t.failures = t.requests - 1)
     /\ Len(run.err) = 3 =>
          /\ t.failures = SEND_RETRIES
          /\ run.err = DeliveryError(SEND_RETRIES, t.lastErr)
     /\ t.failures = SEND_RETRIES => run.err = DeliveryError(SEND_RETRIES, t.lastErr)

\* all three requests failed, the last one with a network error, and the
\* attempt is backing off
C18_Witness ==
  /\ run.tg.failures = SEND_RETRIES
  /\ run.tg.requests = SEND_RETRIES
  /\ run.err = DeliveryError(SEND_RETRIES, "network")
  /\ run.pc = "backoff"

\* C19 as stated: when a job has failed all of its attempts, exactly one
\* failure notification carrying the last error's message has been sent.
C19_FailureNotified ==
  run.result = "failed" =>
    /\ Len(run.notifications) = 1
    /\ run.notifications[1] = run.err
    /\ "sendMessage" \in run.tgCalls

C20_Step ==
  /\ (run'.active # run.active /\ run'.focusBy \notin {"user", "closed"}) =>
       /\ run.pc \in {"focus", "fcGet", "fcRestore", "restore", "finalRestore"}
       /\ run'.active = run.tabId => run.pc \in {"focus", "fcGet"}
  /\ (run'.pc = "send" /\ run.pc \notin {"send", "sendSleep"}) =>
       /\ run.pc = "restore"
       /\ run.shot # "none"
       /\ run'.tg.requests = 1
       /\ (run.originalTab \notin {0, run.tabId} /\ run.originalTab \in run.open) =>
            run'.active = run.originalTab

C24_StopStep ==
  ((lastEvent' # lastEvent \/ alarms' # alarms)
     /\ lastEvent'.action = "stopAutoSend") =>
    /\ UNCHANGED queueVars
    /\ alarms' = {a \in alarms : a.name # AlarmName(lastEvent'.tabId)}
    /\ \A d \in done' :
         /\ d.result \in {"success", "failed", "nocreds", "threw"}
         /\ d.result = "failed" => d.attempts = DEFAULT_RETRY + 1

\* C24: a stopAutoSend request only removes the alarm of the tab: the
\* running job and the queued jobs of that tab stay where they are in the
\* queue, and a job still ends only by succeeding, by finding no
\* credentials, by a rejected settings read or by exhausting its attempts.
C24_StopOnlyRemovesAlarm == [][C24_StopStep]_vars

\* a tab has been stopped while one of its jobs is running and another one
\* is queued behind it
C24_Witness ==
  /\ lastEvent.action = "stopAutoSend"
  /\ AlarmsOfTab(lastEvent.tabId) = {}
  /\ \E j, k \in LiveOfTab(lastEvent.tabId) :
       /\ Executing(j)
       /\ jobs[k].pc = "queued"
       /\ jobs[k].prev = j

\* C30: exactly one detection path of waitForTabComplete decides the
\* outcome: of the update listener, the immediate state check and the
\* timeout, at most one ever schedules or performs a resolve or a reject.
C30_OnePathDecides == Cardinality(waiter.decidedBy) <= 1

C21_Step ==
  (run.result = "running" /\ run'.result = "failed") =>
    /\ run.attempt = DEFAULT_RETRY
    /\ run'.err # NoError
    /\ (run.originalTab # 0
          /\ run.originalTab \in run'.open
          /\ (run.originalTab # run.tabId \/ ~run.userActed)) =>
         run'.active = run.originalTab

\* C21: when the last attempt of a job fails, in whatever step, the tab that
\* was active when the job began is the active tab when runJobForTab
\* returns, provided it is still open; when that tab is the target itself
\* the job has never moved the focus away from it, so it is active unless
\* the user has changed the focus since.
C21_OriginalTabRestored == [][C21_Step]_vars

\* the last attempt failed in the capture, while the target had the focus,
\* and the catch block has made the other tab active again
C21_Witness ==
  /\ run.result = "failed"
  /\ run.err = <<"captureVisibleTab error">>
  /\ run.originalTab \notin {0, run.tabId}
  /\ run.active = run.originalTab
  /\ run.focusBy = "finalRestore"

\* C22: both badges clear themselves: whenever a badge is shown, the timer
\* that clears the badge text after the fixed delay is pending.
C22_BadgesClearThemselves ==
  run.badge # BADGE_NONE => run.badgeTimer = BADGE_CLEAR_DELAY

\* C23 as stated: the failure badge is shown only when the attempt bound is
\* exhausted, never after an attempt that will be retried.
C23_BadgeOnlyWhenExhausted ==
  run.badge = BADGE_ERROR =>
    (run.attempt = DEFAULT_RETRY /\ run.pc \in {"finalRestore", "done"})

C23_Step ==
  /\ (run.pc \notin CaughtPcs
        /\ (run'.pc \in {"backoff", "finalRestore"} \/ run'.result = "failed")) =>
       run'.badge = BADGE_ERROR
  /\ (run.badge # BADGE_ERROR /\ run'.badge = BADGE_ERROR) =>
       /\ run'.err # NoError
       /\ run'.pc \in CaughtPcs
  /\ run'.pc \in {"backoff", "check"} => run'.badge = BADGE_ERROR

\* C23 amended: the failure badge is set after every failed attempt, the
\* ones that are retried included, and by nothing else; it stays shown while
\* the job backs off and begins its next attempt.
C23_BadgeAfterEveryFailedAttempt == [][C23_Step]_vars

\* the first attempt has failed, the job is backing off before its retry and
\* the failure badge is shown
C23_Witness ==
  /\ run.pc = "backoff"
  /\ run.attempt = 0
  /\ run.badge = BADGE_ERROR

\* C28: the stored pageLoadTimeout determines the page-load wait: a run that
\* differs from this one only in that setting would pass another timeout to
\* waitForTabComplete in the same attempt.
C28_PageLoadTimeoutUsed ==
  run.pc = "wait" =>
    \A p \in PageLoadTimeouts \ {run.pageLoadTimeout} :
      waitTimeoutOf(run.attempt, p) # run.waitTimeout

\* C29: tryTabCapture does not wait for the metadata of the video beyond
\* 3000 ms after the stream was obtained: when that time is over it has
\* rejected and captureTab has gone on to focusAndCapture.
C29_TabCaptureTimesOut ==
  run.pc = "tcStream" => run.tcWaited < TAB_CAPTURE_TIMEOUT

\* C25: when a saveCaptureRegion request of a tab has been processed to
\* completion, CAPTURE_REGIONS and the stored tabSettings both hold its
\* region and dpr for that tab; when a clearCaptureRegion request has been
\* processed to completion neither holds a region for that tab; the entries
\* of the other tabs are the same as before in both.
C25_Step ==
  \A t \in Tabs :
    (regions.ops[t].phase # "idle" /\ regions'.ops[t].phase = "idle") =>
      LET op == regions.ops[t]
      IN /\ \A u \in Tabs \ {t} :
              /\ regions'.tabSettings[u] = regions.tabSettings[u]
              /\ regions'.CAPTURE_REGIONS[u] = regions.CAPTURE_REGIONS[u]
         /\ op.kind = "save" =>
              /\ regions'.CAPTURE_REGIONS[t] = Cached(op.region, op.dpr)
              /\ regions'.tabSettings[t] = WithRegion(op.region, op.dpr)
         /\ op.kind = "clear" =>
              /\ ~regions'.CAPTURE_REGIONS[t].has
              /\ ~regions'.tabSettings[t].hasRegion

C25_RegionRequestsTakeEffect == [][C25_Step]_vars

C26_Step ==
  LET c == regions.capture
      d == regions'.capture
      cached == regions.CAPTURE_REGIONS[d.tabId]
      s == regions.tabSettings[d.tabId]
      Positive(r) == r.width > 0 /\ r.height > 0
  IN /\ (c.pc \in {"idle", "done"} /\ d.pc = "crop") =>
          (cached.has /\ d.region = cached.region /\ Positive(cached.region))
     /\ (c.pc = "storage" /\ d.pc = "crop") =>
          (s.hasRegion /\ d.region = s.captureRegion
             /\ Positive(s.captureRegion))
     /\ (c.pc \in {"idle", "done"} /\ d # c /\ cached.has
           /\ ~Positive(cached.region)) =>
          (d.pc = "done" /\ d.image = RawImage)
     /\ (c.pc = "storage" /\ d.pc # "storage"
           /\ (~s.hasRegion \/ ~Positive(s.captureRegion))) =>
          (d.pc = "done" /\ d.image = RawImage)
     /\ (d # c /\ d.pc = "done" /\ d.image # RawImage) =>
          (c.pc = "crop" /\ Positive(c.region))

\* C26: captureTab calls cropImage only with a region of width > 0 and
\* height > 0 that is registered for the tab, in the Map or, when the Map
\* has none, in the storage; when neither holds a region for the tab, or the
\* registered region has width <= 0 or height <= 0, it returns the raw
\* screenshot.
C26_CropsOnlyPositiveRegion == [][C26_Step]_vars

\* captureTab has returned the raw screenshot for a tab whose registered
\* region has width 0
C26_Witness ==
  /\ regions.capture.pc = "done"
  /\ regions.capture.hasRegion
  /\ regions.capture.region.width = 0
  /\ regions.capture.region.height > 0
  /\ ~regions.capture.cropCalled
  /\ regions.capture.image = RawImage

\* C27 as stated: the image cropImage returns is (width*d) by (height*d)
\* and its top-left pixel is the source pixel at (x*d, y*d).
C27_CropExact ==
  (regions.capture.pc = "done" /\ regions.capture.cropCalled) =>
    LET c == regions.capture
    IN /\ c.image.w * 4 = c.region.width * c.dpr
       /\ c.image.h * 4 = c.region.height * c.dpr
       /\ c.image.ox = c.region.x * c.dpr
       /\ c.image.oy = c.region.y * c.dpr

\* C27 amended: the image cropImage returns has the integer parts of
\* width*d and height*d as its dimensions and its top-left pixel is the
\* source at (x*d, y*d); when a step of the cropping throws, the raw image
\* is returned unchanged.
C27_CropIntegerParts ==
  (regions.capture.pc = "done" /\ regions.capture.cropCalled) =>
    LET c == regions.capture
    IN IF c.cropped
       THEN /\ c.image.w * 4 <= c.region.width * c.dpr
            /\ c.image.w * 4 > c.region.width * c.dpr - 4
            /\ c.image.h * 4 <= c.region.height * c.dpr
            /\ c.image.h * 4 > c.region.height * c.dpr - 4
            /\ c.image.ox = c.region.x * c.dpr
            /\ c.image.oy = c.region.y * c.dpr
       ELSE c.image = RawImage

\* a region 3 by 1 has been cropped at dpr 1.5: the image is 4 by 1, not
\* 4.5 by 1.5
C27_Witness ==
  /\ regions.capture.pc = "done"
  /\ regions.capture.cropped
  /\ regions.capture.dpr = 6
  /\ regions.capture.region.width = 3
  /\ regions.capture.image.w = 4
  /\ regions.capture.image.h = 1

C32_Step ==
  /\ (run.pc = "lookup" /\ run'.pc # "lookup") =>
       (run'.pc = "reload" /\ run'.attempt = 0)
  /\ (run.pc = "check" /\ run'.pc # "check") =>
       LET k == run'.checked
           stable == /\ k.readable
                     /\ k.status = "complete"
                     /\ Len(k.url) > 0
                     /\ ~(Len(k.url) >= 9
                            /\ SubSeq(k.url, 1, 9) =
                                 <<"c", "h", "r", "o", "m", "e", ":", "/", "/">>)
       IN /\ run.attempt > 0
          /\ stable => run'.pc = "wait"
          /\ ~stable => run'.pc = "reload"
  /\ (run.pc # "wait" /\ run'.pc = "wait") => run.pc \in {"check", "reload"}

\* C32: the first attempt always reloads the tab; a retry goes on to the
\* readiness wait without reloading exactly when chrome.tabs.get answers
\* with a tab whose status is 'complete' and whose url is set and does not
\* start with chrome://, and reloads in every other case, an unreadable tab
\* included.
C32_ReloadSkippedOnlyWhenLoaded == [][C32_Step]_vars

\* a retry has found the tab complete on an https page and waits for it
\* without having reloaded it
C32_Witness ==
  /\ run.pc = "wait"
  /\ run.attempt = 1
  /\ run.checked.readable
  /\ run.checked.status = "complete"
  /\ StartsWith(run.checked.url, <<"h", "t", "t", "p">>)

\* C34: the key set of tabQueues is always the set of tabs that have a
\* pending or running job, so a tab whose jobs have all settled has no entry;
\* the entry of a tab is its latest job, so a job that settles while a later
\* job of the tab is queued leaves that job's entry in place.
C34_EntriesAreLiveTails ==
  /\ DOMAIN tabQueues = {jobs[j].tab : j \in DOMAIN jobs}
  /\ \A t \in DOMAIN tabQueues :
       /\ tabQueues[t] \in DOMAIN jobs
       /\ jobs[tabQueues[t]].tab = t
       /\ \A j \in DOMAIN jobs : jobs[j].tab = t => j <= tabQueues[t]

\* a job has settled while a later job of its tab, queued behind it, holds
\* the entry
C34_Witness ==
  \E t \in DOMAIN tabQueues :
    /\ jobs[tabQueues[t]].prev # 0
    /\ jobs[tabQueues[t]].prev \notin DOMAIN jobs
    /\ \E d \in done : d.tab = t

\* C40: when botToken or chatId is missing, runJobForTab returns from its
\* first await with nothing changed: no reload, no focus change, no capture
\* request, no Telegram request, no notification and no badge; in the queue
\* the job settles with a fulfilled promise before any attempt has begun and
\* the job queued behind it is called.
C40_Step ==
  /\ (run.pc = "config" /\ run'.pc = "done" /\ run'.result = "nocreds")
       => /\ run' = [run EXCEPT !.pc = "done", !.result = "nocreds"]
          /\ run'.badge = BADGE_NONE /\ run'.tgCalls = {}
          /\ run'.notifications = <<>> /\ run'.shot = "none"
          /\ run'.focusBy \in {"none", "user", "closed"}
          /\ captureQueue' = captureQueue
  /\ \A j \in DOMAIN jobs :
       (jobs[j].pc = "config" /\ j \notin DOMAIN jobs')
         => /\ captureQueue' = captureQueue
            /\ \E d \in done' : /\ d.tab = jobs[j].tab /\ d.attempts = 0
                                 /\ d.promise = "fulfilled"
            /\ \A k \in Successors(jobs, j) :
                 k \in DOMAIN jobs' /\ jobs'[k].pc = "config"

C40_MissingCredentialsNoEffect == [][C40_Step]_vars

\* a job without credentials has returned while the user's tab, not the
\* target, is the active one
C40_Witness ==
  /\ run.pc = "done" /\ run.result = "nocreds"
  /\ run.active # run.tabId

\* C39: whenever the capture closure of runJobForTab finishes, with a
\* screenshot or with an error, and the capture promise settles (the lock is
\* released), the tab that was active before the job began, when it is not
\* the target and is still open, is the active tab.
C39_Step ==
  (captureQueue.chain = <<RunId>> /\ captureQueue'.chain = <<>>)
    => ((run.originalTab # 0 /\ run.originalTab # run.tabId
           /\ run.originalTab \in run'.open)
          => run'.active = run.originalTab)

C39_RestoredBeforeLockPasses == [][C39_Step]_vars

\* C35: every call of enqueueCaptureJob has its captureFn invoked, also after
\* an earlier capture has failed: the job being the only user of the capture
\* queue, the call that ends the sheet step starts the closure (the focus
\* step) and holds the lock.
C35_Step ==
  (run.pc = "sheet" /\ run'.pc # "sheet")
    => (run'.pc = "focus" /\ captureQueue'.chain = <<RunId>>)

C35_CaptureFnAlwaysInvoked == [][C35_Step]_vars

\* C37: from the moment a clearCaptureRegion request for a tab is received,
\* and as long as no saveCaptureRegion for the tab follows (none can while
\* the request is being processed), CAPTURE_REGIONS holds no entry for the
\* tab and a capture of the tab whose storage lookup is answered finds no
\* region, so it returns the full image.
C37_Step ==
  \A t \in Tabs :
    regions'.ops[t].kind = "clear" =>
      /\ ~regions'.CAPTURE_REGIONS[t].has
      /\ (regions.capture.pc = "storage" /\ regions.capture.tabId = t
            /\ regions'.capture.pc # "storage")
           => ~regions'.capture.hasRegion

C37_ClearedStaysCleared == [][C37_Step]_vars

\* C38: no update of the stored regions is lost: once every pending storage
\* callback of the save and clear requests has run, a tab for which
\* CAPTURE_REGIONS holds a region has that same region in the stored
\* tabSettings (no capture has touched CAPTURE_REGIONS, so its entries are
\* the regions last saved).
C38_NoLostUpdate ==
  (regions.capture.pc = "idle"
     /\ \A t \in Tabs : regions.ops[t].phase = "idle") =>
    \A t \in Tabs :
      regions.CAPTURE_REGIONS[t].has =>
        /\ regions.tabSettings[t].exists
        /\ regions.tabSettings[t].hasRegion
        /\ regions.tabSettings[t].captureRegion
             = regions.CAPTURE_REGIONS[t].region

\* C36: when every browser API call, HTTP request and timer eventually
\* returns, the job that has started eventually settles (runJobForTab
\* returns), so the capture lock and the tab queue it holds are passed on.
C36_JobSettles == <>(run.pc = "done")

\* C33: the wait for the loading indicator is two-phase and bounded: a poll
\* that finds the indicator absent after it has been seen ends the step with
\* success at once; an indicator that is never seen ends the step with
\* success within a grace window shorter than the time bound; no poll looks
\* at the page once the time bound has passed.
C33_Step ==
  /\ (loadWait.pc = "poll" /\ loadWait'.pc # "poll"
        /\ loadWait.seen /\ ~loadWait.present
        /\ loadWait.elapsed < DATA_LOAD_TIMEOUT)
       => (loadWait'.pc = "done" /\ loadWait'.result = "ok")
  /\ (loadWait.pc = "poll" /\ loadWait'.pc = "done" /\ ~loadWait.seen)
       => (loadWait'.result = "ok" /\ loadWait.elapsed < DATA_LOAD_TIMEOUT)
  /\ (loadWait.pc = "poll" /\ loadWait'.seen /\ ~loadWait.seen)
       => loadWait.elapsed < DATA_LOAD_TIMEOUT

C33_TwoPhaseBoundedWait == [][C33_Step]_vars

====
